---------------------------- MODULE Spec2Model ----------------------------
(***************************************************************************)
(* A model of the RSpace inventory client (rspace_client/inv/inv.py): the  *)
(* identifier parser, the grid addressing arithmetic, the grid placement   *)
(* strategies, the bulk-move payload, the container classes, the moves     *)
(* into grid and list containers, the operations on one item, and the      *)
(* listing and streaming of samples, subsamples and containers; and of two *)
(* operations of the ELN client (rspace_client/eln/eln.py): the download   *)
(* of an export, which polls a job, and the import of a directory tree.    *)
(*                                                                         *)
(* Python values are modelled as tagged records (field t names the Python  *)
(* type), strings as sequences of one-character strings, a raised          *)
(* exception as the name of its class, and "none" stands for a normal      *)
(* return.                                                                 *)
(***************************************************************************)
EXTENDS Integers, Sequences, FiniteSets, TLC

(***************************************************************************)
(* Bounds of the model.                                                    *)
(***************************************************************************)
\* largest row/column number and grid dimension drawn as an input
MaxDim == 2
\* longest list of items handed to a placement constructor
MaxItems == 3
\* longest occupied-cell list of a container snapshot
MaxLocs == 2
\* longest string drawn character by character as an identifier
MaxIdLen == 4
\* most requests made in a run of list_* calls
MaxCalls == 2
\* most pages a generator is let fetch
MaxPages == 3
\* page size of Pagination(), scaled down from the library's default
DefaultPageSize == 2
\* most in-progress statuses the server reports to one download_export
MaxPolls == 3
\* most subdirectories of the directory import_tree is given
MaxSubdirs == 3

VARIABLES
    call,       \* the public call made last: its name and its arguments
    raised,     \* class of the exception the last call raised, "none" if it returned
    ret,        \* value the last call returned
    placement,  \* the GridPlacement object the caller holds
    container,  \* the Container object the caller holds
    requests,   \* the HTTP requests the client has sent, oldest first
    ident,      \* the Id object the caller holds
    pagination, \* the Pagination objects alive: the caller's and each default
    generator,  \* the generator object a stream_* call returned
    opened,     \* the stream_* call that returned the generator
    consumed,   \* the items the generator has yielded, oldest first
    served,     \* the pages the server has returned to the generator
    job,        \* the export job as the server holds it
    exporting   \* the frame of the running download_export call

vars == <<call, raised, ret, placement, container, requests,
          ident, pagination, generator, opened, consumed, served, job, exporting>>

\* the state of listing and streaming
listing == <<pagination, generator, opened, consumed, served>>

\* the state of an export
exports == <<job, exporting>>

(***************************************************************************)
(* Python helpers.                                                         *)
(***************************************************************************)
None == [t |-> "None"]

SeqsUpTo(S, n) == UNION {[1..k -> S] : k \in 0..n}

Range(s) == {s[i] : i \in 1..Len(s)}

Upper == {"A", "C", "I", "S", "T"}
Lower == {"x"}
Digits == {"0", "1", "2", "3", "4", "5", "6", "7", "8", "9"}

DigitVal(c) ==
    CASE c = "0" -> 0 [] c = "1" -> 1 [] c = "2" -> 2 [] c = "3" -> 3
      [] c = "4" -> 4 [] c = "5" -> 5 [] c = "6" -> 6 [] c = "7" -> 7
      [] c = "8" -> 8 [] c = "9" -> 9

\* str.isalpha(): non-empty and every character a letter
isalpha(s) == Len(s) > 0 /\ \A i \in 1..Len(s) : s[i] \in Upper \cup Lower

\* s[a:b] of Python, 0-based and clipped to the string
Slice(s, a, b) ==
    LET lo == IF a > Len(s) THEN Len(s) ELSE a
        hi == IF b > Len(s) THEN Len(s) ELSE b
    IN  IF hi <= lo THEN <<>> ELSE SubSeq(s, lo + 1, hi)

RECURSIVE StripLeft(_)
StripLeft(s) == IF Len(s) > 0 /\ s[1] = " " THEN StripLeft(Tail(s)) ELSE s

RECURSIVE StripRight(_)
StripRight(s) ==
    IF Len(s) > 0 /\ s[Len(s)] = " " THEN StripRight(SubSeq(s, 1, Len(s) - 1)) ELSE s

RECURSIVE DecimalValue(_)
DecimalValue(ds) ==
    IF Len(ds) = 0 THEN 0
    ELSE 10 * DecimalValue(SubSeq(ds, 1, Len(ds) - 1)) + DigitVal(ds[Len(ds)])

\* int() of Python on a string already stripped of surrounding blanks: the
\* digits may be grouped by single underscores; anything else is a ValueError
ParseDigits(body) ==
    IF /\ Len(body) > 0
       /\ body[1] \in Digits
       /\ body[Len(body)] \in Digits
       /\ \A i \in 1..Len(body) : body[i] \in Digits \cup {"_"}
       /\ \A i \in 1..(Len(body) - 1) : ~(body[i] = "_" /\ body[i + 1] = "_")
    THEN [ok |-> TRUE, val |-> DecimalValue(SelectSeq(body, LAMBDA c : c \in Digits))]
    ELSE [ok |-> FALSE, val |-> 0]

\* int(s) of Python on a string
PyInt(s) == ParseDigits(StripRight(StripLeft(s)))

\* int(a / b) of Python for a >= 0 and b > 0: the true quotient truncated
TruncDiv(a, b) == a \div b

(***************************************************************************)
(* Id (inv.py 422-509).                                                    *)
(***************************************************************************)
IntV(i) == [t |-> "int", i |-> i]
BoolV(b) == [t |-> "bool", b |-> b]
StrV(s) == [t |-> "str", s |-> s]
DictV(hasId, id, hasGlobalId, globalId) ==
    [t |-> "dict", hasId |-> hasId, id |-> id,
     hasGlobalId |-> hasGlobalId, globalId |-> globalId]
SampleV(id) == [t |-> "Sample", sampleId |-> id]

IC == <<"I", "C">>
SS == <<"S", "S">>
SA == <<"S", "A">>
IT == <<"I", "T">>

\* re.match(Id.Pattern, value) is not None, Pattern = ([A-Z]{2})?\d+ :
\* a match anchored at the start of the string only
PatternMatches(value) ==
    \/ Len(value) >= 3 /\ value[1] \in Upper /\ value[2] \in Upper /\ value[3] \in Digits
    \/ Len(value) >= 1 /\ value[1] \in Digits

IdObject(id, hasPrefix, prefix) ==
    [t |-> "Id", err |-> "none", id |-> id, hasPrefix |-> hasPrefix, prefix |-> prefix]

IdError(e) == [t |-> "Id", err |-> e, id |-> 0, hasPrefix |-> FALSE, prefix |-> <<>>]

\* the Id built from the parsed digits n, or the ValueError int() raised
IdFromInt(n, hasPrefix, prefix) ==
    IF n.ok THEN IdObject(n.val, hasPrefix, prefix) ELSE IdError("ValueError")

\* Id.__init__: the Id object built from value, or the exception raised
IdOf(value) ==
    CASE value.t = "str" ->
            IF ~PatternMatches(value.s) THEN IdError("ValueError")
            ELSE IF Len(value.s) > 2 /\ isalpha(Slice(value.s, 0, 2))
                 THEN IdFromInt(PyInt(Slice(value.s, 2, Len(value.s))), TRUE,
                                Slice(value.s, 0, 2))
                 ELSE IdFromInt(PyInt(value.s), FALSE, <<>>)
      [] value.t = "Container" -> IdObject(value.data.id, TRUE, IC)
      [] value.t = "dict" ->
            IF ~value.hasId THEN IdError("TypeError")
            ELSE IF value.hasGlobalId
                 THEN IdObject(value.id, TRUE, Slice(value.globalId, 0, 2))
                 ELSE IdObject(value.id, FALSE, <<>>)
      [] value.t = "int" -> IdObject(value.i, FALSE, <<>>)
      [] OTHER -> IdError("TypeError")

as_id(self) == self.id

\* _check answering in strict mode whatever maybe says
_check_AlwaysStrict(self, prefix, maybe) == self.hasPrefix /\ self.prefix = prefix

_check(self, prefix, maybe) ==
    IF maybe THEN ~self.hasPrefix \/ self.prefix = prefix
    ELSE self.hasPrefix /\ self.prefix = prefix

is_container(self, maybe) == _check(self, IC, maybe)

is_subsample(self, maybe) == _check(self, SS, maybe)

is_movable(self, maybe) == is_subsample(self, maybe) \/ is_container(self, maybe)

PREFIX_TO_TYPE(prefix) ==
    CASE prefix = IC -> "CONTAINER"
      [] prefix = SS -> "SUBSAMPLE"
      [] prefix = SA -> "SAMPLE"
      [] prefix = IT -> "TEMPLATE"
      [] OTHER -> "KeyError"

\* Id.get_type: the type name, or the exception raised when the prefix is
\* unset (AttributeError) or unknown (KeyError)
get_type(self) ==
    IF ~self.hasPrefix THEN "AttributeError" ELSE PREFIX_TO_TYPE(self.prefix)

DigitChar(d) ==
    CASE d = 0 -> "0" [] d = 1 -> "1" [] d = 2 -> "2" [] d = 3 -> "3"
      [] d = 4 -> "4" [] d = 5 -> "5" [] d = 6 -> "6" [] d = 7 -> "7"
      [] d = 8 -> "8" [] d = 9 -> "9"

\* str(n) of Python for an integer n >= 0
RECURSIVE PyStr(_)
PyStr(n) == IF n < 10 THEN <<DigitChar(n)>> ELSE PyStr(n \div 10) \o <<DigitChar(n % 10)>>

\* Id.as_global_id: the global id, or the exception raised when the prefix
\* is unset
as_global_id(self) ==
    IF ~self.hasPrefix THEN [err |-> "AttributeError", val |-> <<>>]
    ELSE [err |-> "none", val |-> self.prefix \o PyStr(self.id)]

\* PREFIX_TO_API with the endpoints of samples and subsamples exchanged
PREFIX_TO_API_SamplesSwapped(prefix) ==
    CASE prefix = IC -> "containers"
      [] prefix = SS -> "samples"
      [] prefix = SA -> "subSamples"
      [] prefix = IT -> "templates"
      [] OTHER -> "KeyError"

PREFIX_TO_API(prefix) ==
    CASE prefix = IC -> "containers"
      [] prefix = SS -> "subSamples"
      [] prefix = SA -> "samples"
      [] prefix = IT -> "templates"
      [] OTHER -> "KeyError"

\* get_api_endpoint taking an Id without prefix for a sample
get_api_endpoint_DefaultsToSamples(self) ==
    IF ~self.hasPrefix THEN "samples" ELSE PREFIX_TO_API(self.prefix)

\* Id.get_api_endpoint: the endpoint, or the exception raised when the prefix
\* is unset (AttributeError) or unknown (KeyError)
get_api_endpoint(self) ==
    IF ~self.hasPrefix THEN "AttributeError" ELSE PREFIX_TO_API(self.prefix)

(***************************************************************************)
(* Grid addressing (inv.py 1266-1281).                                     *)
(***************************************************************************)
BY_ROW == "BY_ROW"
BY_COLUMN == "BY_COLUMN"
EXACT == "EXACT"
FillingStrategy == {BY_ROW, BY_COLUMN, EXACT}

\* _calculate_start_index with the upper bounds checked by >= instead of >
_calculate_start_index_StrictBounds(col_start, row_start, total_columns, total_rows, filling_strategy) ==
    IF col_start < 1 \/ row_start < 1 THEN [err |-> "ValueError", index |-> 0]
    ELSE IF col_start >= total_columns \/ row_start >= total_rows
         THEN [err |-> "ValueError", index |-> 0]
         ELSE [err |-> "none",
               index |-> (IF filling_strategy = BY_ROW
                          THEN ((row_start - 1) * total_columns) + col_start
                          ELSE IF filling_strategy = BY_COLUMN
                               THEN ((col_start - 1) * total_rows) + row_start
                               ELSE 0) - 1]

\* _calculate_start_index: the 0-based linear index of the start cell, or the
\* exception raised
_calculate_start_index(col_start, row_start, total_columns, total_rows, filling_strategy) ==
    IF col_start < 1 \/ row_start < 1 THEN [err |-> "ValueError", index |-> 0]
    ELSE IF col_start > total_columns \/ row_start > total_rows
         THEN [err |-> "ValueError", index |-> 0]
         ELSE LET index ==
                      IF filling_strategy = BY_ROW
                      THEN ((row_start - 1) * total_columns) + col_start
                      ELSE IF filling_strategy = BY_COLUMN
                           THEN ((col_start - 1) * total_rows) + row_start
                           ELSE 0
              IN  [err |-> "none", index |-> index - 1]

(***************************************************************************)
(* Placement strategies (inv.py 62-219).                                   *)
(***************************************************************************)
\* GridLocation.__init__
GridLocation(x, y) ==
    IF x < 1 \/ y < 1 THEN [t |-> "GridLocation", err |-> "ValueError", x |-> x, y |-> y]
    ELSE [t |-> "GridLocation", err |-> "none", x |-> x, y |-> y]

\* MovableError without the is_movable test
MovableError_NoCheck(toMove) == toMove.err

\* the check GridPlacement.__init__ makes of one parsed item
MovableError(toMove) ==
    IF toMove.err # "none" THEN toMove.err
    ELSE IF ~is_movable(toMove, FALSE) THEN "ValueError"
         ELSE "none"

\* the exception the loop body of GridPlacement.__init__ raises for one item
ItemError(item) == MovableError(IdOf(item))

\* the outcome of the loop of GridPlacement.__init__ given each item's error:
\* the loop stops at the first item that raises
LoopOutcome(errors, items_to_move, filling_strategy) ==
    IF \E i \in 1..Len(errors) : errors[i] # "none"
    THEN [err |-> errors[CHOOSE i \in 1..Len(errors) :
                            /\ errors[i] # "none"
                            /\ \A j \in 1..(i - 1) : errors[j] = "none"],
          items_to_move |-> <<>>, filling_strategy |-> filling_strategy]
    ELSE [err |-> "none",
          items_to_move |-> [i \in 1..Len(items_to_move) |-> IdOf(items_to_move[i])],
          filling_strategy |-> filling_strategy]

\* GridPlacement.__init__
GridPlacementInit(items_to_move, filling_strategy) ==
    LoopOutcome([i \in 1..Len(items_to_move) |-> ItemError(items_to_move[i])],
                items_to_move, filling_strategy)

Failed(e) == [t |-> "None", err |-> e]

\* the attributes AutoFit.__init__ sets once GridPlacement.__init__ returned
AutoFitObject(super, column_index, row_index, total_columns, total_rows) ==
    IF super.err # "none" THEN Failed(super.err)
    ELSE [t |-> "AutoFit", err |-> "none",
          items_to_move |-> super.items_to_move,
          filling_strategy |-> super.filling_strategy,
          row_index |-> row_index, column_index |-> column_index,
          total_columns |-> total_columns, total_rows |-> total_rows]

\* AutoFit.__init__ without the test that the start cell is in the grid
AutoFit_NoFitCheck(column_index, row_index, total_columns, total_rows, items_to_move, filling_strategy) ==
    IF Len(items_to_move) = 0 THEN Failed("ValueError")
    ELSE IF \E arg \in {row_index, column_index, total_columns, total_rows} : arg < 1
         THEN Failed("ValueError")
         ELSE AutoFitObject(GridPlacementInit(items_to_move, filling_strategy),
                            column_index, row_index, total_columns, total_rows)

\* AutoFit.__init__
AutoFit(column_index, row_index, total_columns, total_rows, items_to_move, filling_strategy) ==
    IF Len(items_to_move) = 0 THEN Failed("ValueError")
    ELSE IF \E arg \in {row_index, column_index, total_columns, total_rows} : arg < 1
         THEN Failed("ValueError")
         ELSE IF column_index > total_columns \/ row_index > total_rows
              THEN Failed("ValueError")
              ELSE AutoFitObject(GridPlacementInit(items_to_move, filling_strategy),
                                 column_index, row_index, total_columns, total_rows)

\* ByRow.__init__
ByRow(column_index, row_index, total_columns, total_rows, items_to_move) ==
    AutoFit(column_index, row_index, total_columns, total_rows, items_to_move, BY_ROW)

\* ByColumn.__init__
ByColumn(column_index, row_index, total_columns, total_rows, items_to_move) ==
    AutoFit(column_index, row_index, total_columns, total_rows, items_to_move, BY_COLUMN)

\* the attributes ByLocation.__init__ sets once GridPlacement.__init__ returned
ByLocationObject(super, locations) ==
    IF super.err # "none" THEN Failed(super.err)
    ELSE [t |-> "ByLocation", err |-> "none",
          items_to_move |-> super.items_to_move,
          filling_strategy |-> super.filling_strategy,
          locations |-> locations]

\* ByLocation.__init__ without the comparison of the two lengths
ByLocation_NoLengthCheck(locations, items_to_move) ==
    ByLocationObject(GridPlacementInit(items_to_move, EXACT), locations)

\* ByLocation.__init__
ByLocation(locations, items_to_move) ==
    IF Len(locations) # Len(items_to_move) THEN Failed("ValueError")
    ELSE ByLocationObject(GridPlacementInit(items_to_move, EXACT), locations)

(***************************************************************************)
(* Container model (inv.py 233-401).                                       *)
(***************************************************************************)
\* the JSON of a container as the server reports it
Snapshot(hasCType, cType, id, rowsNumber, columnsNumber, locations) ==
    [hasCType |-> hasCType, cType |-> cType, id |-> id,
     gridLayout |-> [rowsNumber |-> rowsNumber, columnsNumber |-> columnsNumber],
     locations |-> locations]

Location(x, y) == [coordX |-> x, coordY |-> y]

\* Container._is_valid_container
_is_valid_container(c) == IF ~c.hasCType THEN "ValueError" ELSE "none"

\* Container._validate_type
_validate_type(c, expected_c_type) ==
    IF c.cType # expected_c_type THEN "ValueError" ELSE "none"

\* GridContainer.__init__: the object, or None and the exception raised
GridContainerInit(grid_container) ==
    IF _is_valid_container(grid_container) # "none"
    THEN [err |-> _is_valid_container(grid_container), obj |-> None]
    ELSE IF _validate_type(grid_container, "GRID") # "none"
         THEN [err |-> _validate_type(grid_container, "GRID"), obj |-> None]
         ELSE [err |-> "none",
               obj |-> [t |-> "Container", class |-> "GridContainer",
                        data |-> grid_container]]

\* the JSON of a container with its capability entries: keys names the
\* entries among canStoreContainers, canStoreSubsamples and canStoreSamples
\* that the JSON carries
FlaggedSnapshot(hasCType, cType, keys, canStoreContainers, canStoreSubsamples, canStoreSamples) ==
    [hasCType |-> hasCType, cType |-> cType, id |-> 9, keys |-> keys,
     canStoreContainers |-> canStoreContainers,
     canStoreSubsamples |-> canStoreSubsamples,
     canStoreSamples |-> canStoreSamples]

\* the object a constructor of a Container subclass builds
ContainerObject(class, data) == [t |-> "Container", class |-> class, data |-> data]

\* ListContainer.__init__ or Workbench.__init__: Container.__init__, then
\* _validate_type
SubclassInit(class, data, expected_c_type) ==
    IF _is_valid_container(data) # "none"
    THEN [err |-> _is_valid_container(data), obj |-> None]
    ELSE IF _validate_type(data, expected_c_type) # "none"
         THEN [err |-> _validate_type(data, expected_c_type), obj |-> None]
         ELSE [err |-> "none", obj |-> ContainerObject(class, data)]

\* ListContainer.__init__
ListContainerInit(list_container) == SubclassInit("ListContainer", list_container, "LIST")

\* Workbench.__init__
WorkbenchInit(workbench) == SubclassInit("Workbench", workbench, "WORKBENCH")

\* Container.of taking every unknown cType for a list
ContainerOf_ListByDefault(data) ==
    IF _is_valid_container(data) # "none"
    THEN [err |-> _is_valid_container(data), obj |-> None]
    ELSE IF data.cType = "GRID" THEN GridContainerInit(data)
         ELSE IF data.cType = "WORKBENCH" THEN WorkbenchInit(data)
              ELSE [err |-> "none", obj |-> ContainerObject("ListContainer", data)]

\* Container.of
ContainerOf(data) ==
    IF _is_valid_container(data) # "none"
    THEN [err |-> _is_valid_container(data), obj |-> None]
    ELSE IF data.cType = "GRID" THEN GridContainerInit(data)
         ELSE IF data.cType = "LIST" THEN ListContainerInit(data)
              ELSE IF data.cType = "WORKBENCH" THEN WorkbenchInit(data)
                   ELSE [err |-> "ValueError", obj |-> None]

\* self.data[key] == True, or the KeyError of a missing entry
FlagOf(self, key, value) ==
    IF key \notin self.data.keys THEN [err |-> "KeyError", val |-> FALSE]
    ELSE [err |-> "none", val |-> (value = TRUE)]

\* Container.accept_subsamples
accept_subsamples(self) == FlagOf(self, "canStoreSamples", self.data.canStoreSamples)

\* Container.accept_containers
accept_containers(self) == FlagOf(self, "canStoreContainers", self.data.canStoreContainers)

\* is_grid: False in Container, True in GridContainer
is_grid(self) == [err |-> "none", val |-> self.class = "GridContainer"]

\* is_list: False in Container; ListContainer overrides it with a function
\* that takes no self, so the call on a ListContainer raises TypeError
is_list(self) ==
    IF self.class = "ListContainer" THEN [err |-> "TypeError", val |-> FALSE]
    ELSE [err |-> "none", val |-> FALSE]

\* is_workbench: False in Container, True in Workbench
is_workbench(self) == [err |-> "none", val |-> self.class = "Workbench"]

row_count(self) == self.data.gridLayout.rowsNumber

column_count(self) == self.data.gridLayout.columnsNumber

capacity(self) == row_count(self) * column_count(self)

in_use(self) == Len(self.data.locations)

\* free ignoring the cells in use
free_IgnoresInUse(self) == capacity(self)

free(self) == capacity(self) - in_use(self)

used_locations(self) ==
    [i \in 1..Len(self.data.locations) |->
        <<self.data.locations[i].coordX, self.data.locations[i].coordY>>]

\* FreeInColumn stopping one row early
RECURSIVE FreeInColumn_SkipsLastRow(_, _, _, _)
FreeInColumn_SkipsLastRow(col, row, rows, used) ==
    IF row >= rows THEN <<>>
    ELSE (IF <<col, row>> \notin Range(used) THEN << <<col, row>> >> ELSE <<>>)
         \o FreeInColumn_SkipsLastRow(col, row + 1, rows, used)

\* the inner loop of free_locations: rows row..rows of column col
RECURSIVE FreeInColumn(_, _, _, _)
FreeInColumn(col, row, rows, used) ==
    IF row > rows THEN <<>>
    ELSE (IF <<col, row>> \notin Range(used) THEN << <<col, row>> >> ELSE <<>>)
         \o FreeInColumn(col, row + 1, rows, used)

\* the outer loop walking the columns from the last to the first
RECURSIVE FreeFromColumn_LastColumnFirst(_, _, _, _)
FreeFromColumn_LastColumnFirst(col, cols, rows, used) ==
    IF col > cols THEN <<>>
    ELSE FreeFromColumn_LastColumnFirst(col + 1, cols, rows, used)
         \o FreeInColumn(col, 1, rows, used)

\* the outer loop of free_locations: columns col..cols
RECURSIVE FreeFromColumn(_, _, _, _)
FreeFromColumn(col, cols, rows, used) ==
    IF col > cols THEN <<>>
    ELSE FreeInColumn(col, 1, rows, used) \o FreeFromColumn(col + 1, cols, rows, used)

free_locations(self) ==
    FreeFromColumn(1, column_count(self), row_count(self), used_locations(self))

(***************************************************************************)
(* Bulk move (inv.py 222-230, 1033-1138).                                  *)
(***************************************************************************)
\* MoveRecord with the two coordinates exchanged
MoveRecord_SwappedCoords(item, grid_id, x, y) ==
    [type |-> get_type(item), id |-> as_id(item),
     parentContainers |-> <<[id |-> as_id(grid_id)]>>,
     parentLocation |-> [coordX |-> y, coordY |-> x]]

\* one record of the bulk-move payload
MoveRecord(item, grid_id, x, y) ==
    [type |-> get_type(item), id |-> as_id(item),
     parentContainers |-> <<[id |-> as_id(grid_id)]>>,
     parentLocation |-> [coordX |-> x, coordY |-> y]]

\* CoordinateAt with the row-major walk wrapping at total_rows
CoordinateAt_WrapAtRows(counter, gp) ==
    IF gp.filling_strategy = BY_ROW
    THEN <<(counter % gp.total_rows) + 1, TruncDiv(counter, gp.total_rows) + 1>>
    ELSE IF gp.filling_strategy = BY_COLUMN
         THEN <<TruncDiv(counter, gp.total_rows) + 1, (counter % gp.total_rows) + 1>>
         ELSE <<gp.column_index, gp.row_index>>

\* CoordinateAt with the walk starting again at the first cell after the last
CoordinateAt_WrapsAround(counter, gp) ==
    IF gp.filling_strategy = BY_ROW
    THEN <<(counter % gp.total_columns) + 1,
           (TruncDiv(counter, gp.total_columns) % gp.total_rows) + 1>>
    ELSE IF gp.filling_strategy = BY_COLUMN
         THEN <<(TruncDiv(counter, gp.total_rows) % gp.total_columns) + 1,
                (counter % gp.total_rows) + 1>>
         ELSE <<gp.column_index, gp.row_index>>

\* the cell _create_bulk_move gives the item whose linear index is counter
CoordinateAt(counter, gp) ==
    IF gp.filling_strategy = BY_ROW
    THEN <<(counter % gp.total_columns) + 1, TruncDiv(counter, gp.total_columns) + 1>>
    ELSE IF gp.filling_strategy = BY_COLUMN
         THEN <<TruncDiv(counter, gp.total_rows) + 1, (counter % gp.total_rows) + 1>>
         ELSE <<gp.column_index, gp.row_index>>

TypeErrors == {"AttributeError", "KeyError"}

\* the records _create_bulk_move appends, one per item and in list order, or
\* the exception get_type raises at the first item without a known type
MovePayload(types, records) ==
    IF \E i \in 1..Len(types) : types[i] \in TypeErrors
    THEN [err |-> types[CHOOSE i \in 1..Len(types) :
                           /\ types[i] \in TypeErrors
                           /\ \A j \in 1..(i - 1) : types[j] \notin TypeErrors],
          payload |-> None]
    ELSE [err |-> "none", payload |-> [operationType |-> "MOVE", records |-> records]]

\* the else branch of _create_bulk_move, start being the start index
AutoFitPayload(start, grid_id, gp) ==
    IF start.err # "none" THEN [err |-> start.err, payload |-> None]
    ELSE MovePayload(
            [i \in 1..Len(gp.items_to_move) |-> get_type(gp.items_to_move[i])],
            [i \in 1..Len(gp.items_to_move) |->
                MoveRecord(gp.items_to_move[i], grid_id,
                           CoordinateAt(start.index + (i - 1), gp)[1],
                           CoordinateAt(start.index + (i - 1), gp)[2])])

\* InventoryClient._create_bulk_move: the payload, or the exception raised
_create_bulk_move(grid_id, gp) ==
    IF gp.filling_strategy = EXACT
    THEN MovePayload(
            [i \in 1..Len(gp.items_to_move) |-> get_type(gp.items_to_move[i])],
            [i \in 1..Len(gp.items_to_move) |->
                MoveRecord(gp.items_to_move[i], grid_id,
                           gp.locations[i].x, gp.locations[i].y)])
    ELSE AutoFitPayload(
            _calculate_start_index(gp.column_index, gp.row_index, gp.total_columns,
                                   gp.total_rows, gp.filling_strategy),
            grid_id, gp)

\* BulkOperationResult
BulkOperationResult(json) == [t |-> "BulkOperationResult", data |-> json]

\* is_ok taking every status but FAILED for success
is_ok_NotFailed(self) == self.data.status # "FAILED"

is_ok(self) == self.data.status = "COMPLETED"

is_failed(self) == ~is_ok(self)

\* what the resource client answers to a request: parsed JSON, or an ApiError
Answered(status) == [err |-> "none", json |-> [status |-> status]]
Refused == [err |-> "ApiError", json |-> [status |-> "none"]]

Request(method, path, params) == [method |-> method, path |-> path, params |-> params]

Outcome(e, value, sent) == [raised |-> e, ret |-> value, sent |-> sent]

\* the end of add_items_to_grid_container: the payload is posted to /bulk and
\* the answer wrapped
PostBulk(bulk_post, response) ==
    IF bulk_post.err # "none" THEN Outcome(bulk_post.err, None, <<>>)
    ELSE IF response.err # "none"
         THEN Outcome(response.err, None, <<Request("POST", "/bulk", bulk_post.payload)>>)
         ELSE Outcome("none", BulkOperationResult(response.json),
                      <<Request("POST", "/bulk", bulk_post.payload)>>)

\* add_items_to_grid_container from the parsed target on
MoveToTarget(id_target, grid_placement, response) ==
    IF id_target.err # "none" THEN Outcome(id_target.err, None, <<>>)
    ELSE IF ~is_container(id_target, TRUE) THEN Outcome("ValueError", None, <<>>)
         ELSE PostBulk(_create_bulk_move(id_target, grid_placement), response)

\* add_items_to_grid_container without the capacity pre-check
add_items_to_grid_container_NoPrecheck(target_container_id, grid_placement, response) ==
    MoveToTarget(IdOf(target_container_id), grid_placement, response)

\* InventoryClient.add_items_to_grid_container, response being what the
\* resource client answers if the request is sent
add_items_to_grid_container(target_container_id, grid_placement, response) ==
    IF /\ target_container_id.t = "Container"
       /\ target_container_id.class = "GridContainer"
       /\ free(target_container_id) < Len(grid_placement.items_to_move)
    THEN Outcome("ValueError", None, <<>>)
    ELSE MoveToTarget(IdOf(target_container_id), grid_placement, response)

\* one record of the payload of a move into a list container
ListMoveRecord(item, id_target) ==
    [type |-> get_type(item), id |-> as_id(item),
     parentContainers |-> <<[id |-> as_id(id_target)]>>]

\* InventoryClient._do_add_to_list_container
_do_add_to_list_container(items, id_target, response) ==
    PostBulk(MovePayload([i \in 1..Len(items) |-> get_type(items[i])],
                         [i \in 1..Len(items) |-> ListMoveRecord(items[i], id_target)]),
             response)

\* a loop that moves the items before the first one that fails its check
MoveChecked_MovesAsItGoes(errors, item_ids, id_target, response) ==
    IF \E i \in 1..Len(errors) : errors[i] # "none"
    THEN Outcome(errors[CHOOSE i \in 1..Len(errors) :
                           /\ errors[i] # "none"
                           /\ \A j \in 1..(i - 1) : errors[j] = "none"],
                 None,
                 <<Request("POST", "/bulk",
                           [operationType |-> "MOVE",
                            records |-> SelectSeq(item_ids,
                                                  LAMBDA item : ItemError(item) = "none")])>>)
    ELSE _do_add_to_list_container([i \in 1..Len(item_ids) |-> IdOf(item_ids[i])],
                                   id_target, response)

\* the loop of add_items_to_list_container given each item's error, then the
\* move of the parsed items
MoveChecked(errors, item_ids, id_target, response) ==
    IF \E i \in 1..Len(errors) : errors[i] # "none"
    THEN Outcome(errors[CHOOSE i \in 1..Len(errors) :
                           /\ errors[i] # "none"
                           /\ \A j \in 1..(i - 1) : errors[j] = "none"],
                 None, <<>>)
    ELSE _do_add_to_list_container([i \in 1..Len(item_ids) |-> IdOf(item_ids[i])],
                                   id_target, response)

\* add_items_to_list_container from the parsed target on
MoveToList(id_target, item_ids, response) ==
    IF id_target.err # "none" THEN Outcome(id_target.err, None, <<>>)
    ELSE IF ~is_container(id_target, TRUE) THEN Outcome("ValueError", None, <<>>)
         ELSE MoveChecked([i \in 1..Len(item_ids) |-> ItemError(item_ids[i])],
                          item_ids, id_target, response)

\* InventoryClient.add_items_to_list_container
add_items_to_list_container(target_container_id, item_ids, response) ==
    MoveToList(IdOf(target_container_id), item_ids, response)

(***************************************************************************)
(* Operations on one item (inv.py 715-759, 848-870).                       *)
(***************************************************************************)
\* what the resource client answers when it returns the JSON of an item
ItemAnswered(item) == [err |-> "none", json |-> item]

ItemPath(endpoint, id, action) == [endpoint |-> endpoint, id |-> id, action |-> action]

\* ClientBase.retrieve_api_results: the request goes out and the parsed JSON
\* comes back, or the ApiError of the resource client is raised
retrieve_api_results(path, request_type, params, response) ==
    IF response.err # "none"
    THEN Outcome(response.err, None, <<Request(request_type, path, params)>>)
    ELSE Outcome("none", response.json, <<Request(request_type, path, params)>>)

\* 'ss_id.is_subsample is False': the attribute read is the bound method, an
\* object that is never the constant False
IsSubsampleIsFalse(ss_id) == FALSE

GetSubsampleParsed(ss_id, response) ==
    IF ss_id.err # "none" THEN Outcome(ss_id.err, None, <<>>)
    ELSE IF IsSubsampleIsFalse(ss_id) THEN Outcome("ValueError", None, <<>>)
         ELSE retrieve_api_results(ItemPath("subSamples", as_id(ss_id), ""), "GET",
                                   None, response)

\* InventoryClient.get_subsample_by_id
get_subsample_by_id(subsample_id, response) ==
    GetSubsampleParsed(IdOf(subsample_id), response)

\* rename from the parsed id and its endpoint on
RenameAt(s_id, endpoint, new_name, response) ==
    IF endpoint \in TypeErrors THEN Outcome(endpoint, None, <<>>)
    ELSE retrieve_api_results(ItemPath(endpoint, as_id(s_id), ""), "PUT",
                              [name |-> new_name], response)

RenameParsed(s_id, new_name, response) ==
    IF s_id.err # "none" THEN Outcome(s_id.err, None, <<>>)
    ELSE RenameAt(s_id, get_api_endpoint(s_id), new_name, response)

\* InventoryClient.rename
rename(sample_id, new_name, response) == RenameParsed(IdOf(sample_id), new_name, response)

\* the end of duplicate: the copy is renamed when a new name was given
RenameCopy(copied, new_name, response) ==
    IF copied.raised # "none" \/ new_name = None THEN copied
    ELSE Outcome(rename(copied.ret, new_name, response).raised,
                 rename(copied.ret, new_name, response).ret,
                 copied.sent \o rename(copied.ret, new_name, response).sent)

DuplicateAt(id_to_copy, endpoint, new_name, response, renamed) ==
    IF endpoint \in TypeErrors THEN Outcome(endpoint, None, <<>>)
    ELSE RenameCopy(retrieve_api_results(
                        ItemPath(endpoint, as_id(id_to_copy), "actions/duplicate"),
                        "POST", None, response),
                    new_name, renamed)

DuplicateParsed(id_to_copy, new_name, response, renamed) ==
    IF id_to_copy.err # "none" THEN Outcome(id_to_copy.err, None, <<>>)
    ELSE DuplicateAt(id_to_copy, get_api_endpoint(id_to_copy), new_name, response, renamed)

\* InventoryClient.duplicate, renamed being the answer to the rename request
duplicate(item_to_duplicate, new_name, response, renamed) ==
    DuplicateParsed(IdOf(item_to_duplicate), new_name, response, renamed)

\* ExtraField.__init__ with the default type and content
ExtraField(name) == [name |-> name, type |-> "text", content |-> "", newFieldRequest |-> FALSE]

AddExtraFieldsAt(s_id, endpoint, fields, response) ==
    IF endpoint \in TypeErrors THEN Outcome(endpoint, None, <<>>)
    ELSE retrieve_api_results(
            ItemPath(endpoint, as_id(s_id), ""), "PUT",
            [extraFields |-> [i \in 1..Len(fields) |->
                                [fields[i] EXCEPT !.newFieldRequest = TRUE]]],
            response)

AddExtraFieldsParsed(s_id, fields, response) ==
    IF s_id.err # "none" THEN Outcome(s_id.err, None, <<>>)
    ELSE AddExtraFieldsAt(s_id, get_api_endpoint(s_id), fields, response)

\* InventoryClient.add_extra_fields
add_extra_fields(item_id, fields, response) ==
    AddExtraFieldsParsed(IdOf(item_id), fields, response)

\* InventoryClient._set_core_properties without tags, description or extra
\* fields, and the entries create_list_container adds
ListContainerPost(name, can_store_containers, can_store_subsamples) ==
    [name |-> name, extraFields |-> <<>>, cType |-> "LIST",
     canStoreContainers |-> can_store_containers,
     canStoreSubsamples |-> can_store_subsamples]

\* InventoryClient.create_list_container
create_list_container(name, can_store_containers, can_store_subsamples, response) ==
    retrieve_api_results("/containers", "POST",
                         ListContainerPost(name, can_store_containers, can_store_subsamples),
                         response)

\* the entries create_grid_container adds
GridContainerPost(name, rows, columns, can_store_containers, can_store_subsamples) ==
    [name |-> name, extraFields |-> <<>>, cType |-> "GRID",
     canStoreContainers |-> can_store_containers,
     canStoreSubsamples |-> can_store_subsamples,
     gridLayout |-> [columnsNumber |-> columns, rowsNumber |-> rows]]

\* InventoryClient.create_grid_container
create_grid_container(name, rows, columns, can_store_containers, can_store_subsamples, response) ==
    retrieve_api_results("/containers", "POST",
                         GridContainerPost(name, rows, columns, can_store_containers,
                                           can_store_subsamples),
                         response)

(***************************************************************************)
(* Listing and streaming (inv.py 402-410, 631-713).                        *)
(***************************************************************************)
\* Pagination: the cursor of a listing; its data is the query it stands for
Pagination(page_number, page_size) ==
    [t |-> "Pagination",
     data |-> [pageNumber |-> page_number, pageSize |-> page_size,
               hasDeletedItems |-> FALSE, deletedItems |-> "",
               hasOwnedBy |-> FALSE, ownedBy |-> ""]]

\* the methods that take a Pagination defaulting to Pagination()
ListMethods == {"list_samples", "list_top_level_containers", "list_subsamples"}
StreamMethods == {"stream_samples", "stream_top_level_containers"}

\* the Pagination objects alive before any call: each method's default,
\* built once when the method is defined, and none held by the caller
Defaults ==
    [m \in ListMethods \cup StreamMethods \cup {"caller"} |->
        IF m = "caller" THEN None ELSE Pagination(0, DefaultPageSize)]

\* a member of the enumeration DeletedItemFilter
DeletedItemFilter(name) == [t |-> "DeletedItemFilter", name |-> name]

\* SearchFilter.__init__
SearchFilter(deleted_item_filter, owned_by) ==
    [t |-> "SearchFilter",
     data |-> [hasDeletedItems |-> deleted_item_filter # None,
               deletedItems |-> IF deleted_item_filter # None
                                THEN deleted_item_filter.name ELSE "",
               hasOwnedBy |-> owned_by # None /\ Len(owned_by.s) > 0,
               ownedBy |-> IF owned_by # None /\ Len(owned_by.s) > 0
                           THEN owned_by.s ELSE ""]]

\* data.update(other) of a dict: the entries of other replace or extend those
\* of data
DictUpdate(data, other) ==
    [data EXCEPT
        !.hasDeletedItems = @ \/ other.hasDeletedItems,
        !.deletedItems = IF other.hasDeletedItems THEN other.deletedItems ELSE @,
        !.hasOwnedBy = @ \/ other.hasOwnedBy,
        !.ownedBy = IF other.hasOwnedBy THEN other.ownedBy ELSE @]

\* "if sample_filter is not None: pagination.data.update(sample_filter.data)":
\* the Pagination objects alive once the one named cursor has been updated
Filtered(pagers, cursor, sample_filter) ==
    IF sample_filter = None THEN pagers
    ELSE [pagers EXCEPT ![cursor].data = DictUpdate(@, sample_filter.data)]

\* what the resource client answers to the request of a page: its items
PageAnswered(items) == [err |-> "none", json |-> [items |-> items]]

\* InventoryClient._do_simple_list on the Pagination object named cursor: the
\* Pagination objects afterwards and the outcome of the call
_do_simple_list(endpoint, pagers, cursor, sample_filter, response) ==
    [pagination |-> Filtered(pagers, cursor, sample_filter),
     out |-> retrieve_api_results(<<"/", endpoint>>, "GET",
                                  Filtered(pagers, cursor, sample_filter)[cursor].data,
                                  response)]

\* InventoryClient.list_samples
list_samples(pagers, cursor, sample_filter, response) ==
    _do_simple_list("samples", pagers, cursor, sample_filter, response)

\* InventoryClient.list_top_level_containers
list_top_level_containers(pagers, cursor, sample_filter, response) ==
    _do_simple_list("containers", pagers, cursor, sample_filter, response)

\* InventoryClient.list_subsamples
list_subsamples(pagers, cursor, sample_filter, response) ==
    _do_simple_list("subSamples", pagers, cursor, sample_filter, response)

\* ClientBase._stream: a generator over the pages of endpoint, reading the
\* Pagination object named cursor; nothing runs until the first pull
_stream(endpoint, cursor) ==
    [t |-> "generator", endpoint |-> endpoint, cursor |-> cursor, page |-> 0,
     buffer |-> <<>>, last |-> FALSE, closed |-> FALSE]

\* stream_samples streaming with the method's default Pagination whatever
\* Pagination it was given
stream_samples_DropsPagination(pagers, cursor, sample_filter) ==
    [pagination |-> Filtered(pagers, cursor, sample_filter),
     generator |-> _stream("samples", "stream_samples")]

\* InventoryClient.stream_samples: the Pagination objects afterwards and the
\* generator returned
stream_samples(pagers, cursor, sample_filter) ==
    [pagination |-> Filtered(pagers, cursor, sample_filter),
     generator |-> _stream("samples", cursor)]

\* InventoryClient.stream_top_level_containers
stream_top_level_containers(pagers, cursor, sample_filter) ==
    [pagination |-> Filtered(pagers, cursor, sample_filter),
     generator |-> _stream("containers", cursor)]

\* what one pull does to the generator, to the caller and to the server
Pulled(gen, e, value, sent, pages) ==
    [generator |-> gen, raised |-> e, ret |-> value, sent |-> sent, pages |-> pages]

\* the generator ends: this pull and every later one raise StopIteration
Stopped(gen, sent, pages) ==
    Pulled([gen EXCEPT !.closed = TRUE, !.buffer = <<>>], "StopIteration", None, sent, pages)

\* the request of the page the generator is at
PageRequest(gen, data) ==
    Request("GET", <<"/", gen.endpoint>>, [data EXCEPT !.pageNumber = gen.page])

\* the generator retrying a failed fetch: the request goes out again
Fetch_RetriesOnce(gen, data, response) ==
    IF response.err # "none"
    THEN Pulled([gen EXCEPT !.closed = TRUE, !.buffer = <<>>], response.err, None,
                <<PageRequest(gen, data), PageRequest(gen, data)>>, <<>>)
    ELSE IF Len(response.json.items) = 0
         THEN Stopped(gen, <<PageRequest(gen, data)>>, <<response.json.items>>)
         ELSE Pulled([gen EXCEPT !.buffer = Tail(response.json.items),
                                  !.last = Len(response.json.items) < data.pageSize,
                                  !.page = @ + 1],
                     "none", Head(response.json.items),
                     <<PageRequest(gen, data)>>, <<response.json.items>>)

\* the generator fetches the page it is at: an error of the resource client
\* ends it and reaches the consumer, an empty page ends it, and otherwise the
\* first item of the page is yielded and the cursor advances
Fetch(gen, data, response) ==
    IF response.err # "none"
    THEN Pulled([gen EXCEPT !.closed = TRUE, !.buffer = <<>>], response.err, None,
                <<PageRequest(gen, data)>>, <<>>)
    ELSE IF Len(response.json.items) = 0
         THEN Stopped(gen, <<PageRequest(gen, data)>>, <<response.json.items>>)
         ELSE Pulled([gen EXCEPT !.buffer = Tail(response.json.items),
                                  !.last = Len(response.json.items) < data.pageSize,
                                  !.page = @ + 1],
                     "none", Head(response.json.items),
                     <<PageRequest(gen, data)>>, <<response.json.items>>)

\* the generator needs a page to answer the next pull
NeedsPage(gen) == ~gen.closed /\ gen.buffer = <<>> /\ ~gen.last

\* a generator that fetches the next page while it yields the last item of
\* the page it holds
Resume_Prefetches(gen, data, response) ==
    IF gen.closed THEN Stopped(gen, <<>>, <<>>)
    ELSE IF Len(gen.buffer) = 1 /\ ~gen.last /\ response.err = "none"
         THEN Pulled([gen EXCEPT !.buffer = response.json.items,
                                  !.last = Len(response.json.items) < data.pageSize,
                                  !.page = @ + 1],
                     "none", Head(gen.buffer),
                     <<PageRequest(gen, data)>>, <<response.json.items>>)
         ELSE IF gen.buffer # <<>>
              THEN Pulled([gen EXCEPT !.buffer = Tail(@)], "none", Head(gen.buffer),
                          <<>>, <<>>)
              ELSE IF gen.last THEN Stopped(gen, <<>>, <<>>)
                   ELSE Fetch(gen, data, response)

\* next(gen): the generator runs to its next yield, data being the query of
\* its Pagination and response the answer to a page request if one is made
Resume(gen, data, response) ==
    IF gen.closed THEN Stopped(gen, <<>>, <<>>)
    ELSE IF gen.buffer # <<>>
         THEN Pulled([gen EXCEPT !.buffer = Tail(@)], "none", Head(gen.buffer), <<>>, <<>>)
         ELSE IF gen.last THEN Stopped(gen, <<>>, <<>>)
              ELSE Fetch(gen, data, response)

(***************************************************************************)
(* Export jobs (eln.py 462-547).                                           *)
(***************************************************************************)
\* the statuses on which download_export sleeps and polls again
InProgress == {"RUNNING", "STARTING", "STARTED"}

ExportPath(export_format, scope, uid) ==
    [endpoint |-> "export", format |-> export_format, scope |-> scope, uid |-> uid]

JobPath(job_id) == [endpoint |-> "jobs", id |-> job_id]

\* the job as GET /jobs/{id} reports it
JobJson(id, status, result, enclosure) ==
    [id |-> id, status |-> status, result |-> result, enclosure |-> enclosure]

\* a path of the local file system and what os.path.isdir says of it
LocalPath(path, isdir) == [path |-> path, isdir |-> isdir]

start_export(export_format, scope, uid, response) ==
    IF export_format # "xml" /\ export_format # "html" THEN Outcome("ValueError", None, <<>>)
    ELSE IF scope # "user" /\ scope # "group" THEN Outcome("ValueError", None, <<>>)
    ELSE retrieve_api_results(ExportPath(export_format, scope, uid), "POST", None, response)

get_job_status(job_id, response) ==
    retrieve_api_results(JobPath(job_id), "GET", None, response)

\* ClientBase.get_link: the href of the link of the response with this rel
get_link(response, rel) == response[rel]

\* ClientBase._get_formated_error_message: the diagnostic text of the server
_get_formated_error_message(result) == result.message

\* ClientBase.download_link_to_file: the file behind the link is fetched and
\* written to file_path, or the error of the resource client is raised
LinkPath(url, file_path) == [endpoint |-> "link", url |-> url, file_path |-> file_path]

download_link_to_file(url, file_path, response) ==
    IF response.err # "none"
    THEN Outcome(response.err, None, <<Request("GET", LinkPath(url, file_path), None)>>)
    ELSE Outcome("none", None, <<Request("GET", LinkPath(url, file_path), None)>>)

\* os.path.join(file_path, download_url.split("/")[-1]) for a directory
DownloadTarget(file_path, download_url) ==
    IF file_path.isdir THEN Append(file_path.path, download_url[Len(download_url)])
    ELSE file_path.path

\* what one turn of the loop of download_export leaves: where the call is,
\* what it raised or returned, the message of its error, what it sent
Turn(pc, e, value, message, sent) ==
    [pc |-> pc, raised |-> e, ret |-> value, message |-> message, sent |-> sent]

\* the COMPLETED branch from the download on
Downloaded(fetched, file_path, sent) ==
    IF fetched.raised # "none"
    THEN Turn("done", fetched.raised, None, <<>>, sent \o fetched.sent)
    ELSE Turn("done", "none", StrV(file_path), <<>>, sent \o fetched.sent)

Completed(download_url, file_path, sent, download) ==
    Downloaded(download_link_to_file(download_url, file_path, download), file_path, sent)

\* the branches of the loop body on the status of the job
OnStatus_FailedSleeps(status_response, file_path, sent, download) ==
    IF status_response.status = "COMPLETED"
    THEN Completed(get_link(status_response, "enclosure"),
                   DownloadTarget(file_path, get_link(status_response, "enclosure")),
                   sent, download)
    ELSE IF status_response.status = "ABANDONED"
    THEN Turn("done", "ApiError", None,
              <<"Export job was abandoned: ",
                _get_formated_error_message(status_response.result)>>, sent)
    ELSE IF status_response.status \in InProgress \cup {"FAILED"}
    THEN Turn("sleep", "none", None, <<>>, sent)
    ELSE Turn("done", "ApiError", None,
              <<"Unknown job status: ", status_response.status>>, sent)

OnStatus(status_response, file_path, sent, download) ==
    IF status_response.status = "COMPLETED"
    THEN Completed(get_link(status_response, "enclosure"),
                   DownloadTarget(file_path, get_link(status_response, "enclosure")),
                   sent, download)
    ELSE IF status_response.status = "FAILED"
    THEN Turn("done", "ApiError", None,
              <<"Export job failed: ",
                _get_formated_error_message(status_response.result)>>, sent)
    ELSE IF status_response.status = "ABANDONED"
    THEN Turn("done", "ApiError", None,
              <<"Export job was abandoned: ",
                _get_formated_error_message(status_response.result)>>, sent)
    ELSE IF status_response.status \in InProgress
    THEN Turn("sleep", "none", None, <<>>, sent)
    ELSE Turn("done", "ApiError", None,
              <<"Unknown job status: ", status_response.status>>, sent)

\* one turn of the loop from the answer of get_job_status on
Polled(status, file_path, download) ==
    IF status.raised # "none" THEN Turn("done", status.raised, None, <<>>, status.sent)
    ELSE OnStatus(status.ret, file_path, status.sent, download)

\* the frame of download_export: where the call is, its job and its target,
\* the statuses it has read, how often it has slept, the message of its error
Frame(pc, job_id, file_path, seen, slept, message) ==
    [pc |-> pc, job_id |-> job_id, file_path |-> file_path, seen |-> seen,
     slept |-> slept, message |-> message]

(***************************************************************************)
(* Import of a directory tree (eln.py 808-905).  The tree is data_dir, its *)
(* files and its subdirectories in the order os.walk lists them; each      *)
(* subdirectory holds files and no directory.                              *)
(***************************************************************************)
DOC_PER_FILE == "DOC_PER_FILE"
SUMMARY_DOC == "SUMMARY_DOC"
DOC_PER_SUBFOLDER == "DOC_PER_SUBFOLDER"

\* list.remove(x): the list without its first x
RECURSIVE Remove(_, _)
Remove(list, x) ==
    IF list = <<>> THEN <<>>
    ELSE IF list[1] = x THEN Tail(list)
    ELSE <<list[1]>> \o Remove(Tail(list), x)

\* the for loop of _filter_dot_files from position i of the list on; the
\* list iterator reads position i of the list as remove has left it
RECURSIVE FilterFrom(_, _)
FilterFrom(subdirList, i) ==
    IF i > Len(subdirList) THEN subdirList
    ELSE IF subdirList[i][1] = "."
         THEN FilterFrom(Remove(subdirList, subdirList[i]), i + 1)
         ELSE FilterFrom(subdirList, i + 1)

_filter_dot_files(subdirList) == FilterFrom(subdirList, 1)

FolderPost(name, parent) ==
    Request("POST", [endpoint |-> "folders", name |-> name, parent |-> parent], None)

FilePost(dirName, f) ==
    Request("POST", [endpoint |-> "files", name |-> f, parent |-> dirName], None)

DocumentPost(name, parent) ==
    Request("POST", [endpoint |-> "documents", name |-> name, parent |-> parent], None)

RECURSIVE Chain(_)
Chain(seqs) == IF seqs = <<>> THEN <<>> ELSE seqs[1] \o Chain(Tail(seqs))

\* the folders made for the subdirectories os.walk is left with
SubFolders(data_dir, dirName, subdirList, doc_creation) ==
    Chain([i \in 1..Len(subdirList) |->
             IF subdirList[i] # data_dir /\ doc_creation \in {DOC_PER_FILE, DOC_PER_SUBFOLDER}
             THEN <<FolderPost(subdirList[i], dirName)>> ELSE <<>>])

\* the uploads of the files of one directory and the documents made for them
Uploads(dirName, fileList, doc_creation) ==
    Chain([i \in 1..Len(fileList) |->
             IF doc_creation = DOC_PER_FILE
             THEN <<FilePost(dirName, fileList[i]), DocumentPost(fileList[i], dirName)>>
             ELSE <<FilePost(dirName, fileList[i])>>])
    \o (IF doc_creation = DOC_PER_SUBFOLDER /\ fileList # <<>>
        THEN <<DocumentPost(<<"Summary-doc">>, dirName)>> ELSE <<>>)

\* the body of the os.walk loop for data_dir, then for each subdirectory the
\* filter has left in subdirList
Walked(data_dir, subdirList, fileList, files_of, doc_creation) ==
    SubFolders(data_dir, data_dir, subdirList, doc_creation)
    \o Uploads(data_dir, fileList, doc_creation)
    \o Chain([i \in 1..Len(subdirList) |->
                Uploads(subdirList[i], files_of[subdirList[i]], doc_creation)])

\* the summary document of SUMMARY_DOC, made when a file was uploaded
Summary(data_dir, sent, doc_creation) ==
    IF doc_creation = SUMMARY_DOC
       /\ \E i \in 1..Len(sent) : sent[i].path.endpoint = "files"
    THEN sent \o <<DocumentPost(<<"Summary-doc">>, data_dir)>>
    ELSE sent

import_tree(data_dir, subdirList, fileList, files_of, ignore_hidden_folders, doc_creation) ==
    Outcome("none", [status |-> "OK"],
            <<FolderPost(data_dir, None)>>
            \o Summary(data_dir,
                       Walked(data_dir,
                              IF ignore_hidden_folders THEN _filter_dot_files(subdirList)
                              ELSE subdirList,
                              fileList, files_of, doc_creation),
                       doc_creation))

(***************************************************************************)
(* Inputs the callers and the server supply.                               *)
(***************************************************************************)
\* items a caller hands to a placement: global ids of a subsample, a
\* container and a sample, the dict of a template, and a bare numeric id
ItemValues ==
    {StrV(<<"S", "S", "1">>), StrV(<<"I", "C", "2">>), StrV(<<"S", "A", "3">>),
     DictV(TRUE, 4, TRUE, <<"I", "T", "4">>), IntV(5)}

ItemLists == SeqsUpTo(ItemValues, MaxItems)

\* row and column numbers and grid dimensions a caller passes
DimInputs == 0..MaxDim

\* the GridLocation objects a caller has built
LocationValues == {GridLocation(1, 1), GridLocation(2, 1), GridLocation(1, 3)}

LocationLists == SeqsUpTo(LocationValues, MaxItems)

\* the first k cells of a rows x columns grid, column by column
FirstCells(k, rows) == [i \in 1..k |-> Location(((i - 1) \div rows) + 1, ((i - 1) % rows) + 1)]

\* grid containers re-read from the server, with up to MaxLocs cells in use
GridTargets ==
    {GridContainerInit(Snapshot(TRUE, "GRID", 9, rows, cols, FirstCells(k, rows))).obj :
        rows \in 1..2, cols \in 1..2, k \in 0..MaxLocs}

\* targets of a move: a bare id as a number and as a string, global ids of a
\* container and of a subsample, the dict of a container, and GridContainer
\* objects
TargetValues ==
    {IntV(7), StrV(<<"7">>), StrV(<<"I", "C", "7">>), StrV(<<"S", "S", "7">>),
     DictV(TRUE, 8, TRUE, <<"I", "C", "8">>)} \cup GridTargets

\* what the resource client answers to POST /bulk
Responses == {Answered("COMPLETED"), Answered("FAILED"), Answered("PRE_RUN"), Refused}

(***************************************************************************)
(* The caller builds a placement and moves its items into a grid.          *)
(***************************************************************************)
Init ==
    /\ call = [op |-> "init"]
    /\ raised = "none"
    /\ ret = None
    /\ placement = None
    /\ container = None
    /\ requests = <<>>
    /\ ident = None
    /\ pagination = Defaults
    /\ generator = None
    /\ opened = None
    /\ consumed = <<>>
    /\ served = <<>>
    /\ job = None
    /\ exporting = None

\* no call has been made yet
Starting == call.op = "init"

Built(obj) == IF obj.err = "none" THEN obj ELSE None

\* a constructor call returns obj to the caller, or raises
Constructed(made, obj) ==
    /\ call' = made
    /\ raised' = obj.err
    /\ placement' = Built(obj)
    /\ ret' = None
    /\ UNCHANGED <<container, requests, ident, listing, exports>>

NewByRow(column_index, row_index, total_columns, total_rows, items) ==
    /\ Starting
    /\ Constructed([op |-> "ByRow", column_index |-> column_index,
                    row_index |-> row_index, total_columns |-> total_columns,
                    total_rows |-> total_rows, items_to_move |-> items],
                   ByRow(column_index, row_index, total_columns, total_rows, items))

NewByColumn(column_index, row_index, total_columns, total_rows, items) ==
    /\ Starting
    /\ Constructed([op |-> "ByColumn", column_index |-> column_index,
                    row_index |-> row_index, total_columns |-> total_columns,
                    total_rows |-> total_rows, items_to_move |-> items],
                   ByColumn(column_index, row_index, total_columns, total_rows, items))

NewByLocation(locations, items) ==
    /\ Starting
    /\ Constructed([op |-> "ByLocation", locations |-> locations,
                    items_to_move |-> items],
                   ByLocation(locations, items))

\* a call of the client returns or raises, having sent out.sent
Returned(made, out) ==
    /\ call' = made
    /\ raised' = out.raised
    /\ ret' = out.ret
    /\ requests' = requests \o out.sent

AddItemsToGridContainer(target, response) ==
    /\ placement # None
    /\ call.op # "add_items_to_grid_container"
    /\ Returned([op |-> "add_items_to_grid_container", target |-> target,
                 response |-> response],
                add_items_to_grid_container(target, placement, response))
    /\ UNCHANGED <<placement, container, ident, listing, exports>>

AddItemsToListContainer(target, item_ids, response) ==
    /\ Starting
    /\ Returned([op |-> "add_items_to_list_container", target |-> target,
                 item_ids |-> item_ids, response |-> response],
                add_items_to_list_container(target, item_ids, response))
    /\ UNCHANGED <<placement, container, ident, listing, exports>>

Next ==
    \/ /\ Starting
       /\ \E c \in DimInputs, r \in DimInputs, tc \in DimInputs, tr \in DimInputs,
             items \in ItemLists : NewByRow(c, r, tc, tr, items)
    \/ /\ Starting
       /\ \E c \in DimInputs, r \in DimInputs, tc \in DimInputs, tr \in DimInputs,
             items \in ItemLists : NewByColumn(c, r, tc, tr, items)
    \/ /\ Starting
       /\ \E locations \in LocationLists, items \in ItemLists :
             NewByLocation(locations, items)
    \/ \E target \in TargetValues, response \in Responses :
          AddItemsToGridContainer(target, response)
    \/ /\ Starting
       /\ \E target \in TargetValues, item_ids \in ItemLists, response \in Responses :
             AddItemsToListContainer(target, item_ids, response)

Spec == Init /\ [][Next]_vars

(***************************************************************************)
(* The start index computed on its own, for any arguments.                 *)
(***************************************************************************)
CoordInputs == (0 - 1)..(MaxDim + 1)

\* _calculate_start_index returns out.index to the caller, or raises
Indexed(made, out) ==
    /\ call' = made
    /\ raised' = out.err
    /\ ret' = IF out.err = "none" THEN IntV(out.index) ELSE None
    /\ UNCHANGED <<placement, container, requests, ident, listing, exports>>

CalculateStartIndex(col_start, row_start, total_columns, total_rows, filling_strategy) ==
    /\ Starting
    /\ Indexed([op |-> "_calculate_start_index", col_start |-> col_start,
                row_start |-> row_start, total_columns |-> total_columns,
                total_rows |-> total_rows, filling_strategy |-> filling_strategy],
               _calculate_start_index(col_start, row_start, total_columns,
                                      total_rows, filling_strategy))

NextIndex ==
    /\ Starting
    /\ \E c \in CoordInputs, r \in CoordInputs, tc \in CoordInputs, tr \in CoordInputs,
          fs \in FillingStrategy : CalculateStartIndex(c, r, tc, tr, fs)

SpecIndex == Init /\ [][NextIndex]_vars

(***************************************************************************)
(* A grid container is built from a snapshot and queried.                  *)
(***************************************************************************)
\* cells a snapshot may name: those of the largest grid and one ring outside
CellInputs == {Location(x, y) : x \in 1..(MaxDim + 1), y \in 1..(MaxDim + 1)}

SnapshotInputs ==
    {Snapshot(TRUE, "GRID", 9, rows, cols, locs) :
        rows \in 1..MaxDim, cols \in 1..MaxDim, locs \in SeqsUpTo(CellInputs, MaxLocs)}
    \cup {Snapshot(TRUE, "LIST", 9, 1, 1, <<>>), Snapshot(FALSE, "", 9, 1, 1, <<>>)}

\* the GridContainer constructor returns made.obj to the caller, or raises
Loaded(snapshot, made) ==
    /\ call' = [op |-> "GridContainer", data |-> snapshot]
    /\ raised' = made.err
    /\ container' = made.obj
    /\ ret' = None
    /\ UNCHANGED <<placement, requests, ident, listing, exports>>

NewGridContainer(snapshot) ==
    /\ Starting
    /\ Loaded(snapshot, GridContainerInit(snapshot))

Query(op, value) ==
    /\ container # None
    /\ call' = [op |-> op]
    /\ raised' = "none"
    /\ ret' = value
    /\ UNCHANGED <<placement, container, requests, ident, listing, exports>>

ListV(items) == [t |-> "list", items |-> items]

Capacity == Query("capacity", IntV(capacity(container)))

InUse == Query("in_use", IntV(in_use(container)))

Free == Query("free", IntV(free(container)))

UsedLocations == Query("used_locations", ListV(used_locations(container)))

FreeLocations == Query("free_locations", ListV(free_locations(container)))

NextContainer ==
    \/ /\ Starting
       /\ \E snapshot \in SnapshotInputs : NewGridContainer(snapshot)
    \/ Capacity
    \/ InUse
    \/ Free
    \/ UsedLocations
    \/ FreeLocations

SpecContainer == Init /\ [][NextContainer]_vars

(***************************************************************************)
(* Containers are created, rebuilt from the JSON of the server and asked   *)
(* what they accept.                                                       *)
(***************************************************************************)
CapabilityKeys == {"canStoreContainers", "canStoreSubsamples", "canStoreSamples"}

\* the JSON handed to Container.of and to the constructors: every cType the
\* library knows, one it does not know and none at all, with any of the
\* capability entries
ContainerJson ==
    {FlaggedSnapshot(TRUE, cType, keys, cc, css, cs) :
        cType \in {"GRID", "LIST", "WORKBENCH", "IMAGE"},
        keys \in SUBSET CapabilityKeys, cc \in BOOLEAN, css \in BOOLEAN, cs \in BOOLEAN}
    \cup {FlaggedSnapshot(FALSE, "", {}, FALSE, FALSE, FALSE)}

\* what the server answers to the creation of a container
CreateResponses ==
    {ItemAnswered(FlaggedSnapshot(TRUE, "LIST", {"canStoreContainers", "canStoreSamples"},
                                  TRUE, FALSE, TRUE)),
     Refused}

\* a constructor or Container.of returns made.obj to the caller, or raises
LoadedBy(op, data, made) ==
    /\ Starting
    /\ call' = [op |-> op, data |-> data]
    /\ raised' = made.err
    /\ container' = made.obj
    /\ ret' = None
    /\ UNCHANGED <<placement, requests, ident, listing, exports>>

ContainerOfJson(data) == LoadedBy("Container.of", data, ContainerOf(data))

NewListContainer(data) == LoadedBy("ListContainer", data, ListContainerInit(data))

NewWorkbench(data) == LoadedBy("Workbench", data, WorkbenchInit(data))

NewGrid(data) == LoadedBy("GridContainer", data, GridContainerInit(data))

\* a method of the container held returns out.val, or raises
Accepts(op, out) ==
    /\ container # None
    /\ call' = [op |-> op]
    /\ raised' = out.err
    /\ ret' = IF out.err = "none" THEN BoolV(out.val) ELSE None
    /\ UNCHANGED <<placement, container, requests, ident, listing, exports>>

AcceptSubsamples == container # None /\ Accepts("accept_subsamples", accept_subsamples(container))

AcceptContainers == container # None /\ Accepts("accept_containers", accept_containers(container))

IsGrid == container # None /\ Accepts("is_grid", is_grid(container))

IsList == container # None /\ Accepts("is_list", is_list(container))

IsWorkbench == container # None /\ Accepts("is_workbench", is_workbench(container))

CreateListContainer(can_store_containers, can_store_subsamples, response) ==
    /\ Starting
    /\ Returned([op |-> "create_list_container", response |-> response],
                create_list_container(StrV(<<"x">>), can_store_containers,
                                      can_store_subsamples, response))
    /\ UNCHANGED <<placement, container, ident, listing, exports>>

CreateGridContainer(rows, columns, can_store_containers, can_store_subsamples, response) ==
    /\ Starting
    /\ Returned([op |-> "create_grid_container", response |-> response],
                create_grid_container(StrV(<<"x">>), rows, columns, can_store_containers,
                                      can_store_subsamples, response))
    /\ UNCHANGED <<placement, container, ident, listing, exports>>

NextFactory ==
    \/ /\ Starting
       /\ \E data \in ContainerJson : ContainerOfJson(data)
    \/ /\ Starting
       /\ \E data \in ContainerJson : NewListContainer(data)
    \/ /\ Starting
       /\ \E data \in ContainerJson : NewWorkbench(data)
    \/ /\ Starting
       /\ \E data \in ContainerJson : NewGrid(data)
    \/ AcceptSubsamples
    \/ AcceptContainers
    \/ IsGrid
    \/ IsList
    \/ IsWorkbench
    \/ /\ Starting
       /\ \E cc \in BOOLEAN, css \in BOOLEAN, response \in CreateResponses :
             CreateListContainer(cc, css, response)
    \/ /\ Starting
       /\ \E rows \in 1..MaxDim, columns \in 1..MaxDim, cc \in BOOLEAN, css \in BOOLEAN,
             response \in CreateResponses :
             CreateGridContainer(rows, columns, cc, css, response)

SpecFactory == Init /\ [][NextFactory]_vars

(***************************************************************************)
(* An identifier is parsed and queried, and items are changed by id.       *)
(***************************************************************************)
\* characters of the strings drawn: an upper-case and a lower-case letter, a
\* digit, a blank and an underscore
IdChars == {"A", "x", "1", " ", "_"}

\* the global ids of the four known types
GlobalIds ==
    {StrV(prefix \o digits) : prefix \in {IC, SS, SA, IT}, digits \in {<<"7">>, <<"1", "2">>}}

\* values handed to Id(): any short string, global ids, numbers, the dicts of
\* a template, of a subsample, of an item without global id and of something
\* without id, a grid container and a Sample object
IdInputs ==
    {StrV(chars) : chars \in SeqsUpTo(IdChars, MaxIdLen)}
    \cup GlobalIds
    \cup {IntV(5), DictV(TRUE, 4, TRUE, <<"I", "T", "4">>),
          DictV(TRUE, 6, TRUE, <<"S", "S", "6">>), DictV(TRUE, 4, FALSE, <<>>),
          DictV(FALSE, 0, TRUE, <<"S", "A", "3">>), SampleV(3),
          GridContainerInit(Snapshot(TRUE, "GRID", 9, 1, 1, <<>>)).obj}

\* values handed to the operations on one item
ItemIdInputs ==
    GlobalIds
    \cup {IntV(5), StrV(<<"5">>), StrV(<<"x">>), StrV(<<"A", "A", "1">>),
          DictV(TRUE, 4, TRUE, <<"I", "T", "4">>), DictV(TRUE, 4, FALSE, <<>>)}

\* what the resource client answers to a request about one item
ItemResponses ==
    {ItemAnswered(DictV(TRUE, 8, TRUE, <<"S", "A", "8">>)),
     ItemAnswered(DictV(TRUE, 8, FALSE, <<>>)), Refused}

NameInputs == {None, StrV(<<"x">>)}

ExtraFieldLists == {<<>>, <<ExtraField("ef1")>>, <<ExtraField("ef1"), ExtraField("ef2")>>}

\* the Id constructor returns made to the caller, or raises
Identified(value, made) ==
    /\ call' = [op |-> "Id", value |-> value]
    /\ raised' = made.err
    /\ ident' = IF made.err = "none" THEN made ELSE None
    /\ ret' = None
    /\ UNCHANGED <<placement, container, requests, listing, exports>>

NewId(value) ==
    /\ Starting
    /\ Identified(value, IdOf(value))

\* a method of the Id held returns value, or raises e
Asked(made, e, value) ==
    /\ ident # None
    /\ call' = made
    /\ raised' = e
    /\ ret' = IF e = "none" THEN value ELSE None
    /\ UNCHANGED <<placement, container, requests, ident, listing, exports>>

IsContainer(maybe) ==
    Asked([op |-> "is_container", maybe |-> maybe], "none",
          BoolV(is_container(ident, maybe)))

IsSubsample(maybe) ==
    Asked([op |-> "is_subsample", maybe |-> maybe], "none",
          BoolV(is_subsample(ident, maybe)))

IsMovable(maybe) ==
    Asked([op |-> "is_movable", maybe |-> maybe], "none",
          BoolV(is_movable(ident, maybe)))

AsGlobalId ==
    Asked([op |-> "as_global_id"], as_global_id(ident).err,
          StrV(as_global_id(ident).val))

\* a lookup of the type or the endpoint returns found, or raises it
Looked(op, found) ==
    Asked([op |-> op], IF found \in TypeErrors THEN found ELSE "none", found)

GetType == ident # None /\ Looked("get_type", get_type(ident))

GetApiEndpoint == ident # None /\ Looked("get_api_endpoint", get_api_endpoint(ident))

Rename(sample_id, new_name, response) ==
    /\ Starting
    /\ Returned([op |-> "rename", id |-> sample_id, response |-> response],
                rename(sample_id, new_name, response))
    /\ UNCHANGED <<placement, container, ident, listing, exports>>

GetSubsampleById(subsample_id, response) ==
    /\ Starting
    /\ Returned([op |-> "get_subsample_by_id", id |-> subsample_id, response |-> response],
                get_subsample_by_id(subsample_id, response))
    /\ UNCHANGED <<placement, container, ident, listing, exports>>

Duplicate(item_to_duplicate, new_name, response, renamed) ==
    /\ Starting
    /\ Returned([op |-> "duplicate", id |-> item_to_duplicate, new_name |-> new_name,
                 response |-> response, renamed |-> renamed],
                duplicate(item_to_duplicate, new_name, response, renamed))
    /\ UNCHANGED <<placement, container, ident, listing, exports>>

AddExtraFields(item_id, fields, response) ==
    /\ Starting
    /\ Returned([op |-> "add_extra_fields", id |-> item_id, response |-> response],
                add_extra_fields(item_id, fields, response))
    /\ UNCHANGED <<placement, container, ident, listing, exports>>

NextId ==
    \/ /\ Starting
       /\ \E value \in IdInputs : NewId(value)
    \/ \E maybe \in BOOLEAN : IsContainer(maybe)
    \/ \E maybe \in BOOLEAN : IsSubsample(maybe)
    \/ \E maybe \in BOOLEAN : IsMovable(maybe)
    \/ AsGlobalId
    \/ GetType
    \/ GetApiEndpoint
    \/ /\ Starting
       /\ \E sample_id \in ItemIdInputs, response \in ItemResponses :
             Rename(sample_id, StrV(<<"x">>), response)
    \/ /\ Starting
       /\ \E subsample_id \in ItemIdInputs, response \in ItemResponses :
             GetSubsampleById(subsample_id, response)
    \/ /\ Starting
       /\ \E item \in ItemIdInputs, new_name \in NameInputs,
             response \in ItemResponses, renamed \in ItemResponses :
             Duplicate(item, new_name, response, renamed)
    \/ /\ Starting
       /\ \E item_id \in ItemIdInputs, fields \in ExtraFieldLists,
             response \in ItemResponses : AddExtraFields(item_id, fields, response)

SpecId == Init /\ [][NextId]_vars

(***************************************************************************)
(* Listings are read page by page and streamed.                            *)
(***************************************************************************)
\* the filters a caller passes: none, one excluding deleted items with an
\* empty owner, and one by owner alone
FilterInputs ==
    {None,
     SearchFilter(DeletedItemFilter("EXCLUDE"), StrV(<<>>)),
     SearchFilter(None, StrV(<<"b", "o", "b">>))}

\* the page sizes of the Pagination objects a caller builds
PageSizes == 1..DefaultPageSize

ItemNames == {"a", "b"}

\* what the server answers to the request of a page of at most size items
PageResponses(size) ==
    {PageAnswered(items) : items \in SeqsUpTo(ItemNames, size)} \cup {Refused}

\* what the server answers to a list_* call
ListResponses == {PageAnswered(<<"a">>), Refused}

\* the caller builds a Pagination of its own
NewPagination(page_size) ==
    /\ Starting
    /\ call' = [op |-> "Pagination", page_size |-> page_size]
    /\ raised' = "none"
    /\ ret' = None
    /\ pagination' = [pagination EXCEPT !.caller = Pagination(0, page_size)]
    /\ UNCHANGED <<placement, container, requests, ident, generator, opened, consumed,
                   served, exports>>

\* the Pagination objects a call of method can be given: the caller's, if
\* there is one, and the default of the method
Cursors(method) == {k \in {"caller", method} : pagination[k] # None}

\* a list_* call returns, having changed the Pagination objects to done.pagination
Listed(method, cursor, sample_filter, response, done) ==
    /\ Len(requests) < MaxCalls
    /\ Returned([op |-> method, cursor |-> cursor, sample_filter |-> sample_filter,
                 response |-> response],
                done.out)
    /\ pagination' = done.pagination
    /\ UNCHANGED <<placement, container, ident, generator, opened, consumed, served,
                   exports>>

ListSamples(cursor, sample_filter, response) ==
    Listed("list_samples", cursor, sample_filter, response,
           list_samples(pagination, cursor, sample_filter, response))

ListTopLevelContainers(cursor, sample_filter, response) ==
    Listed("list_top_level_containers", cursor, sample_filter, response,
           list_top_level_containers(pagination, cursor, sample_filter, response))

ListSubsamples(cursor, sample_filter, response) ==
    Listed("list_subsamples", cursor, sample_filter, response,
           list_subsamples(pagination, cursor, sample_filter, response))

\* a stream_* call returns the generator made.generator
Streaming(method, cursor, sample_filter, made) ==
    /\ generator = None
    /\ call' = [op |-> method, cursor |-> cursor, sample_filter |-> sample_filter]
    /\ raised' = "none"
    /\ ret' = None
    /\ pagination' = made.pagination
    /\ generator' = made.generator
    /\ opened' = call'
    /\ UNCHANGED <<placement, container, requests, ident, consumed, served, exports>>

StreamSamples(cursor, sample_filter) ==
    Streaming("stream_samples", cursor, sample_filter,
              stream_samples(pagination, cursor, sample_filter))

StreamTopLevelContainers(cursor, sample_filter) ==
    Streaming("stream_top_level_containers", cursor, sample_filter,
              stream_top_level_containers(pagination, cursor, sample_filter))

\* the consumer gets what one pull produced
Yielded(pull) ==
    /\ call' = [op |-> "next", fetched |-> Len(pull.sent)]
    /\ raised' = pull.raised
    /\ ret' = pull.ret
    /\ generator' = pull.generator
    /\ requests' = requests \o pull.sent
    /\ served' = served \o pull.pages
    /\ consumed' = IF pull.raised = "none" THEN Append(consumed, pull.ret) ELSE consumed
    /\ UNCHANGED <<placement, container, ident, pagination, opened, exports>>

\* the consumer pulls the next item from the generator
PullNext(response) ==
    /\ generator # None
    /\ NeedsPage(generator) => Len(requests) < MaxPages
    /\ Yielded(Resume(generator, pagination[generator.cursor].data, response))

NextStream ==
    \/ /\ Starting
       /\ \E page_size \in PageSizes : NewPagination(page_size)
    \/ /\ generator = None
       /\ \E cursor \in Cursors("stream_samples"), sample_filter \in FilterInputs :
             StreamSamples(cursor, sample_filter)
    \/ /\ generator = None
       /\ \E cursor \in Cursors("stream_top_level_containers"),
             sample_filter \in FilterInputs :
             StreamTopLevelContainers(cursor, sample_filter)
    \/ /\ generator # None
       /\ \E response \in PageResponses(pagination[generator.cursor].data.pageSize) :
             PullNext(response)

SpecStream == Init /\ [][NextStream]_vars

NextListing ==
    \/ /\ Starting
       /\ \E page_size \in PageSizes : NewPagination(page_size)
    \/ /\ Len(requests) < MaxCalls
       /\ \E cursor \in Cursors("list_samples"), sample_filter \in FilterInputs,
             response \in ListResponses : ListSamples(cursor, sample_filter, response)
    \/ /\ Len(requests) < MaxCalls
       /\ \E cursor \in Cursors("list_top_level_containers"),
             sample_filter \in FilterInputs, response \in ListResponses :
             ListTopLevelContainers(cursor, sample_filter, response)
    \/ /\ Len(requests) < MaxCalls
       /\ \E cursor \in Cursors("list_subsamples"), sample_filter \in FilterInputs,
             response \in ListResponses : ListSubsamples(cursor, sample_filter, response)
    \/ /\ generator = None
       /\ \E cursor \in Cursors("stream_samples"), sample_filter \in FilterInputs :
             StreamSamples(cursor, sample_filter)
    \/ /\ generator = None
       /\ \E cursor \in Cursors("stream_top_level_containers"),
             sample_filter \in FilterInputs :
             StreamTopLevelContainers(cursor, sample_filter)
    \/ /\ generator # None
       /\ \E response \in PageResponses(pagination[generator.cursor].data.pageSize) :
             PullNext(response)

SpecListing == Init /\ [][NextListing]_vars

(***************************************************************************)
(* The caller downloads an export: download_export starts the job, then    *)
(* polls its status and sleeps in turn while the server works on the job.  *)
(***************************************************************************)
ExportFormats == {"xml", "html", "pdf"}

Scopes == {"user", "group", "all"}

Uids == {None, IntV(3)}

FilePaths == {LocalPath(<<"out">>, TRUE), LocalPath(<<"out", "my.zip">>, FALSE)}

JobIds == {7, 12}

ArchiveUrl == <<"export", "archive.zip">>

StartResponses == {ItemAnswered([id |-> j]) : j \in JobIds} \cup {Refused}

Statuses == InProgress \cup {"COMPLETED", "FAILED", "ABANDONED", "PAUSED"}

Messages == {"disk full", "shutdown"}

DownloadResponses == {ItemAnswered(None), Refused}

\* download_export has started its job, or has raised
Exported(made, started, file_path) ==
    /\ call' = made
    /\ raised' = started.raised
    /\ ret' = None
    /\ requests' = requests \o started.sent
    /\ exporting' = IF started.raised # "none"
                    THEN Frame("done", 0, file_path, <<>>, 0, <<>>)
                    ELSE Frame("poll", started.ret.id, file_path, <<>>, 0, <<>>)
    /\ job' = IF started.raised # "none" THEN None
              ELSE JobJson(started.ret.id, "STARTING", [message |-> ""], ArchiveUrl)
    /\ UNCHANGED <<placement, container, ident, listing>>

DownloadExport(export_format, scope, file_path, uid, response) ==
    /\ Starting
    /\ Exported([op |-> "download_export", export_format |-> export_format,
                 scope |-> scope, file_path |-> file_path, uid |-> uid],
                start_export(export_format, scope, uid, response), file_path)

\* one turn of the loop has been made
Turned(turn, response) ==
    /\ exporting' = [exporting EXCEPT
                        !.pc = turn.pc,
                        !.seen = IF response.err = "none"
                                 THEN Append(@, response.json.status) ELSE @,
                        !.message = turn.message]
    /\ raised' = turn.raised
    /\ ret' = turn.ret
    /\ requests' = requests \o turn.sent
    /\ UNCHANGED <<call, job, placement, container, ident, listing>>

\* the loop of download_export asks for the status of its job and acts on it
GetJobStatus(response, download) ==
    /\ exporting.pc = "poll"
    /\ Turned(Polled(get_job_status(exporting.job_id, response),
                     exporting.file_path, download), response)

\* a loop that gives up at its second sleep
Sleep_TimesOut ==
    /\ exporting # None
    /\ exporting.pc = "sleep"
    /\ exporting' = IF exporting.slept >= 1 THEN [exporting EXCEPT !.pc = "done"]
                    ELSE [exporting EXCEPT !.pc = "poll", !.slept = @ + 1]
    /\ raised' = IF exporting.slept >= 1 THEN "TimeoutError" ELSE raised
    /\ UNCHANGED <<call, ret, requests, job, placement, container, ident, listing>>

\* time.sleep(wait_between_requests), then the loop continues
Sleep ==
    /\ exporting # None
    /\ exporting.pc = "sleep"
    /\ exporting' = [exporting EXCEPT !.pc = "poll", !.slept = @ + 1]
    /\ UNCHANGED <<call, raised, ret, requests, job, placement, container, ident, listing>>

\* download_export is running
Running == exporting # None /\ exporting.pc \in {"poll", "sleep"}

\* the server moves the job on
JobProgress(status, message) ==
    /\ job.status \in InProgress
    /\ status # job.status
    /\ job' = [job EXCEPT !.status = status, !.result = [message |-> message]]
    /\ UNCHANGED <<call, raised, ret, requests, exporting, placement, container, ident,
                   listing>>

\* a turn of the loop, the server answering with the job or refusing
Poll ==
    /\ Running
    /\ job.status \in InProgress => Len(exporting.seen) < MaxPolls
    /\ \E response \in {ItemAnswered(job), Refused}, download \in DownloadResponses :
          GetJobStatus(response, download)

NextExport ==
    \/ /\ Starting
       /\ \E export_format \in ExportFormats, scope \in Scopes, file_path \in FilePaths,
             uid \in Uids, response \in StartResponses :
             DownloadExport(export_format, scope, file_path, uid, response)
    \/ Poll
    \/ Sleep
    \/ /\ Running
       /\ \E status \in Statuses, message \in Messages : JobProgress(status, message)

SpecExport == Init /\ [][NextExport]_vars

\* the thread of download_export keeps running: a status request is
\* answered or refused, and a sleep ends
SpecExportFair == SpecExport /\ WF_vars(Poll) /\ WF_vars(Sleep)

(***************************************************************************)
(* The caller imports a directory tree.                                    *)
(***************************************************************************)
DirNames == {<<".", "g">>, <<".", "h">>, <<"a">>, <<"b">>}

\* the listings of a directory: its subdirectories in any order
SubdirLists == {s \in SeqsUpTo(DirNames, MaxSubdirs) : \A i, j \in 1..Len(s) : i # j => s[i] # s[j]}

\* every subdirectory holds one file
FilesOf == [d \in DirNames |-> <<d \o <<".", "t">> >>]

Strategies == {DOC_PER_FILE, SUMMARY_DOC, DOC_PER_SUBFOLDER}

ImportTree(subdirList, fileList, ignore_hidden_folders, doc_creation) ==
    /\ Starting
    /\ Returned([op |-> "import_tree", subdirList |-> subdirList, fileList |-> fileList,
                 ignore_hidden_folders |-> ignore_hidden_folders,
                 doc_creation |-> doc_creation],
                import_tree(<<"t">>, subdirList, fileList, FilesOf,
                            ignore_hidden_folders, doc_creation))
    /\ UNCHANGED <<placement, container, ident, listing, exports>>

NextImport ==
    /\ Starting
    /\ \E subdirList \in SubdirLists, fileList \in {<<>>, << <<"r">> >>},
          ignore_hidden_folders \in BOOLEAN, doc_creation \in Strategies :
          ImportTree(subdirList, fileList, ignore_hidden_folders, doc_creation)

SpecImport == Init /\ [][NextImport]_vars

(***************************************************************************)
(* Properties.                                                             *)
(***************************************************************************)
ConstructorOps == {"ByRow", "ByColumn", "ByLocation"}

\* a move request has gone out in the last call
Sent == call.op = "add_items_to_grid_container" /\ Len(requests) = 1

\* C1: _calculate_start_index raises a validation error exactly when
\* col_start < 1 or row_start < 1 or col_start > total_columns or
\* row_start > total_rows, and otherwise returns
\* (row_start-1)*total_columns + col_start - 1 for BY_ROW and
\* (col_start-1)*total_rows + row_start - 1 for BY_COLUMN.
C1_StartIndexContract ==
    call.op = "_calculate_start_index" =>
        /\ raised \in {"none", "ValueError"}
        /\ (raised = "ValueError") <=>
              (\/ call.col_start < 1
               \/ call.row_start < 1
               \/ call.col_start > call.total_columns
               \/ call.row_start > call.total_rows)
        /\ (raised = "none" /\ call.filling_strategy = BY_ROW) =>
              ret = IntV((call.row_start - 1) * call.total_columns + call.col_start - 1)
        /\ (raised = "none" /\ call.filling_strategy = BY_COLUMN) =>
              ret = IntV((call.col_start - 1) * call.total_rows + call.row_start - 1)

\* the last cell of a grid wider than high has index columns*rows - 1
C1_Witness ==
    /\ call.op = "_calculate_start_index"
    /\ call.filling_strategy = BY_COLUMN
    /\ call.total_columns = 2
    /\ call.total_rows = 1
    /\ call.col_start = call.total_columns
    /\ call.row_start = call.total_rows
    /\ raised = "none"
    /\ ret = IntV(1)

\* C2: round trip: for a ByRow or ByColumn placement the cell computed for
\* the first item, from the start index and with the same strategy, is the
\* start cell (column_index, row_index).
C2_RoundTrip ==
    (Sent /\ placement.t = "AutoFit") =>
        requests[1].params.records[1].parentLocation =
            [coordX |-> placement.column_index, coordY |-> placement.row_index]

\* a column-major placement starting in the second column of a 2 x 2 grid
C2_Witness ==
    /\ Sent
    /\ placement.t = "AutoFit"
    /\ placement.filling_strategy = BY_COLUMN
    /\ placement.total_columns = 2
    /\ placement.total_rows = 2
    /\ placement.column_index = 2
    /\ placement.row_index = 1
    /\ requests[1].params.records[1].parentLocation = [coordX |-> 2, coordY |-> 1]

\* the start index and the inverse mapping as the design states them
ExpectedStart(p) ==
    IF p.filling_strategy = BY_ROW
    THEN (p.row_index - 1) * p.total_columns + p.column_index - 1
    ELSE (p.column_index - 1) * p.total_rows + p.row_index - 1

ExpectedCell(p, index) ==
    IF p.filling_strategy = BY_ROW
    THEN [coordX |-> (index % p.total_columns) + 1,
          coordY |-> (index \div p.total_columns) + 1]
    ELSE [coordX |-> (index \div p.total_rows) + 1,
          coordY |-> (index % p.total_rows) + 1]

\* the numeric id a target stands for
TargetId(target) ==
    CASE target.t = "int" -> target.i
      [] target.t = "str" ->
            DecimalValue(SelectSeq(target.s, LAMBDA c : c \in Digits))
      [] target.t = "dict" -> target.id
      [] target.t = "Container" -> target.data.id

\* C3: the bulk-move payload has operationType MOVE and one record per item
\* of the placement, in list order, each naming the target container as
\* parent; for ByRow/ByColumn record i (from 0) carries the cell of linear
\* index start_index + i, for ByLocation the i-th supplied location.
C3_BulkMovePayload ==
    Sent =>
        LET payload == requests[1].params
            items == placement.items_to_move
        IN  /\ requests[1].method = "POST"
            /\ requests[1].path = "/bulk"
            /\ payload.operationType = "MOVE"
            /\ Len(payload.records) = Len(items)
            /\ \A i \in 1..Len(items) :
                  /\ payload.records[i].id = items[i].id
                  /\ payload.records[i].type =
                        (IF items[i].prefix = IC THEN "CONTAINER" ELSE "SUBSAMPLE")
                  /\ payload.records[i].parentContainers =
                        <<[id |-> TargetId(call.target)]>>
                  /\ payload.records[i].parentLocation =
                        (IF placement.t = "ByLocation"
                         THEN [coordX |-> placement.locations[i].x,
                               coordY |-> placement.locations[i].y]
                         ELSE ExpectedCell(placement,
                                           ExpectedStart(placement) + (i - 1)))

\* three items placed by row from the second cell of a 2 x 2 grid
C3_Witness ==
    /\ Sent
    /\ placement.t = "AutoFit"
    /\ placement.filling_strategy = BY_ROW
    /\ placement.total_columns = 2
    /\ placement.total_rows = 2
    /\ placement.column_index = 2
    /\ placement.row_index = 1
    /\ Len(placement.items_to_move) = 3
    /\ requests[1].params.records[3].parentLocation = [coordX |-> 2, coordY |-> 2]

\* the free cells of a snapshot, counted from its layout and occupied cells
FreeCells(target) ==
    target.data.gridLayout.rowsNumber * target.data.gridLayout.columnsNumber
        - Len(target.data.locations)

MovedToSnapshot ==
    call.op = "add_items_to_grid_container" /\ call.target.t = "Container"

\* C4: given a GridContainer snapshot as target, add_items_to_grid_container
\* raises its error exactly when the snapshot has fewer free cells than the
\* placement has items, and then no HTTP request is sent; with enough free
\* cells the pre-check does not raise and the request goes out.
C4_CapacityPrecheck ==
    MovedToSnapshot =>
        /\ (raised = "ValueError") <=>
              (FreeCells(call.target) < Len(placement.items_to_move))
        /\ (FreeCells(call.target) < Len(placement.items_to_move)) =>
              requests = <<>>
        /\ (FreeCells(call.target) >= Len(placement.items_to_move)) =>
              Len(requests) = 1 /\ raised \in {"none", "ApiError"}

\* two items for a grid of two cells of which one is in use
C4_Witness ==
    /\ MovedToSnapshot
    /\ Len(call.target.data.locations) = 1
    /\ FreeCells(call.target) = 1
    /\ Len(placement.items_to_move) = 2
    /\ raised = "ValueError"
    /\ requests = <<>>

\* what the caller gets back once the server has answered with a status
StatusIsReturned ==
    call.response.err = "none" =>
        /\ raised = "none"
        /\ ret.t = "BulkOperationResult"
        /\ is_ok(ret) <=> (call.response.json.status = "COMPLETED")
        /\ is_failed(ret) <=> ~is_ok(ret)

\* C5 as stated: given a bare id or a global-id string as target, the bulk
\* request is always sent and the server's status comes back in a
\* BulkOperationResult, never as an error.
C5_AlwaysSent ==
    (call.op = "add_items_to_grid_container" /\ call.target.t \in {"int", "str"}) =>
        /\ Len(requests) = 1
        /\ StatusIsReturned

\* a target that is a bare numeric id or the global id of a container
BareOrContainerId(target) ==
    \/ target.t = "int"
    \/ target.t = "str" /\ \A i \in 1..Len(target.s) : target.s[i] \in Digits
    \/ target.t = "str" /\ Len(target.s) > 2 /\ SubSeq(target.s, 1, 2) = IC

\* C5 amended: given a bare numeric id or the global-id string of a
\* container (IC...) as target, no capacity pre-check is made, the bulk
\* request is always sent and whatever status the server returns comes back
\* in a BulkOperationResult with is_ok() true exactly for COMPLETED and
\* is_failed() its negation; given the global-id string of any other type
\* the call raises ValueError and sends nothing.
C5_SentForContainerIds ==
    (call.op = "add_items_to_grid_container" /\ call.target.t \in {"int", "str"}) =>
        IF BareOrContainerId(call.target)
        THEN /\ Len(requests) = 1
             /\ raised \in {"none", "ApiError"}
             /\ StatusIsReturned
        ELSE raised = "ValueError" /\ requests = <<>>

\* the server fails a move to the container IC7
C5_Witness ==
    /\ call.op = "add_items_to_grid_container"
    /\ call.target = StrV(<<"I", "C", "7">>)
    /\ call.response = Answered("FAILED")
    /\ Len(requests) = 1
    /\ raised = "none"
    /\ is_failed(ret)

\* the cells of the grid of a container
GridCells(c) ==
    {<<x, y>> : x \in 1..c.data.gridLayout.columnsNumber,
                y \in 1..c.data.gridLayout.rowsNumber}

Count(seq, v) == Cardinality({i \in 1..Len(seq) : seq[i] = v})

ExactCover(freeList, usedList, c) ==
    /\ \A cell \in GridCells(c) : Count(freeList, cell) + Count(usedList, cell) = 1
    /\ Range(freeList) \cup Range(usedList) \subseteq GridCells(c)

\* C6 as stated: for any rows, columns and occupied-cell list,
\* free_locations() and used_locations() together cover every cell of the
\* grid exactly once and hold nothing outside the grid.
C6_Partition ==
    call.op = "free_locations" =>
        ExactCover(ret.items, used_locations(container), container)

\* the occupied-cell list names pairwise distinct cells of the grid
DistinctCellsInGrid(c) ==
    /\ \A i \in 1..Len(c.data.locations) :
          <<c.data.locations[i].coordX, c.data.locations[i].coordY>> \in GridCells(c)
    /\ \A i, j \in 1..Len(c.data.locations) :
          c.data.locations[i] = c.data.locations[j] => i = j

\* C6 amended: for any snapshot free_locations() holds exactly the cells of
\* the grid that used_locations() does not name, each once; when the
\* occupied-cell list names pairwise distinct cells inside the grid, the two
\* lists together cover every cell of the grid exactly once and hold nothing
\* outside it.
C6_PartitionOfWellFormed ==
    call.op = "free_locations" =>
        /\ \A cell \in GridCells(container) :
              Count(ret.items, cell) =
                 (IF cell \in Range(used_locations(container)) THEN 0 ELSE 1)
        /\ Range(ret.items) \subseteq GridCells(container)
        /\ DistinctCellsInGrid(container) =>
              ExactCover(ret.items, used_locations(container), container)

\* a 2 x 2 grid with two cells in use has the other two free
C6_Witness ==
    /\ call.op = "free_locations"
    /\ container.data.gridLayout.rowsNumber = 2
    /\ container.data.gridLayout.columnsNumber = 2
    /\ Len(container.data.locations) = 2
    /\ DistinctCellsInGrid(container)
    /\ Len(ret.items) = 2

\* C7: capacity() is rows times columns, in_use() the length of the
\* locations list, free() their difference, and used_locations() holds the
\* (coordX, coordY) pair of every entry of the locations list.
C7_GridCounts ==
    /\ call.op = "capacity" =>
          ret = IntV(container.data.gridLayout.rowsNumber
                        * container.data.gridLayout.columnsNumber)
    /\ call.op = "in_use" => ret = IntV(Len(container.data.locations))
    /\ call.op = "free" => ret = IntV(FreeCells(container))
    /\ call.op = "used_locations" =>
          \A i \in 1..Len(container.data.locations) :
              \E j \in 1..Len(ret.items) :
                  ret.items[j] = <<container.data.locations[i].coordX,
                                   container.data.locations[i].coordY>>

\* a 2 x 2 grid with the cell (2,1) in use has 3 cells free
C7_Witness ==
    /\ call.op = "free"
    /\ container.data.gridLayout.rowsNumber = 2
    /\ container.data.gridLayout.columnsNumber = 2
    /\ container.data.locations = <<Location(2, 1)>>
    /\ ret = IntV(3)

\* C8: constructing ByRow, ByColumn or ByLocation with an empty item list
\* fails with a validation error.
C8_EmptyItemsRejected ==
    (call.op \in ConstructorOps /\ Len(call.items_to_move) = 0) =>
        raised = "ValueError" /\ placement = None

\* C9: ByLocation fails with a validation error whenever the number of
\* locations differs from the number of items, and every ByLocation built has
\* as many locations as items.
C9_ByLocationLengths ==
    /\ (call.op = "ByLocation" /\ Len(call.locations) # Len(call.items_to_move)) =>
          raised = "ValueError" /\ placement = None
    /\ placement.t = "ByLocation" =>
          Len(placement.locations) = Len(placement.items_to_move)

\* two locations for one movable item
C9_Witness ==
    /\ call.op = "ByLocation"
    /\ Len(call.locations) = 2
    /\ call.items_to_move = <<StrV(<<"S", "S", "1">>)>>
    /\ raised = "ValueError"
    /\ placement = None

\* an item whose type is known and is neither container nor subsample
KnownNotMovable(item) ==
    \/ item.t = "str" /\ Len(item.s) > 2 /\ SubSeq(item.s, 1, 2) \in {SA, IT}
    \/ item.t = "dict" /\ item.hasGlobalId /\ SubSeq(item.globalId, 1, 2) \in {SA, IT}

\* C10: constructing any placement fails with a validation error, and yields
\* no placement object, if any item of the list, at any position, has a known
\* type that is neither container (IC) nor subsample (SS).
C10_UnmovableItemRejected ==
    (/\ call.op \in ConstructorOps
     /\ \E i \in 1..Len(call.items_to_move) : KnownNotMovable(call.items_to_move[i])) =>
        raised = "ValueError" /\ placement = None

\* a sample comes last, after a subsample and a container, in a list that
\* fits its grid
C10_Witness ==
    /\ call.op = "ByRow"
    /\ call.column_index = 1
    /\ call.row_index = 1
    /\ call.total_columns = 2
    /\ call.total_rows = 2
    /\ call.items_to_move =
          <<StrV(<<"S", "S", "1">>), StrV(<<"I", "C", "2">>), StrV(<<"S", "A", "3">>)>>
    /\ raised = "ValueError"
    /\ placement = None

\* an item given as a bare numeric id
BareNumeric(item) == item.t = "int"

\* C11: an item given as a bare numeric id passes the movability check of the
\* move operations: add_items_to_list_container and the placement
\* constructors do not reject a list of such items as not movable, a
\* placement is built and the move request to a list container goes out.
C11_BareNumericItemAccepted ==
    /\ (/\ call.op = "add_items_to_list_container"
         /\ call.target = StrV(<<"I", "C", "7">>)
         /\ Len(call.item_ids) > 0
         /\ \A i \in 1..Len(call.item_ids) : BareNumeric(call.item_ids[i])) =>
            raised # "ValueError" /\ Len(requests) = 1
    /\ (/\ call.op = "ByLocation"
         /\ Len(call.items_to_move) > 0
         /\ Len(call.locations) = Len(call.items_to_move)
         /\ \A i \in 1..Len(call.items_to_move) : BareNumeric(call.items_to_move[i])) =>
            raised = "none" /\ placement # None

AllDigits(s) == Len(s) > 0 /\ \A i \in 1..Len(s) : s[i] \in Digits

\* the whole string is an optional two-uppercase-letter prefix and digits
WellFormedId(s) ==
    \/ AllDigits(s)
    \/ Len(s) > 2 /\ s[1] \in Upper /\ s[2] \in Upper /\ AllDigits(SubSeq(s, 3, Len(s)))

\* C12: parsing a string into an Id succeeds exactly when the whole string is
\* an optional two-uppercase-letter prefix followed by one or more digits,
\* every other string fails with a validation error, and a dict without an
\* 'id' entry fails too.
C12_WholeStringValidated ==
    /\ (call.op = "Id" /\ call.value.t = "str") =>
          /\ (raised = "none") <=> WellFormedId(call.value.s)
          /\ raised \in {"none", "ValueError"}
    /\ (call.op = "Id" /\ call.value.t = "dict" /\ ~call.value.hasId) =>
          raised # "none" /\ ident = None

KnownPrefixes == {IC, SS, SA, IT}

\* the Id held has one of the four known prefixes
KnownType == ident.hasPrefix /\ ident.prefix \in KnownPrefixes

\* the number the digits after the prefix of a global id of GlobalIds spell
DigitsAfterPrefix(s) ==
    IF Len(s) = 3 THEN DigitVal(s[3]) ELSE (10 * DigitVal(s[3])) + DigitVal(s[4])

\* C13: for an Id parsed from a global id with a known prefix the numeric id
\* is the digits after the prefix; get_api_endpoint() returns containers for
\* IC, subSamples for SS, samples for SA and templates for IT; is_movable is
\* true for IC and SS and false for SA and IT, in strict and non-strict mode.
C13_KnownPrefix ==
    /\ (call.op = "Id" /\ call.value \in GlobalIds) =>
          /\ raised = "none"
          /\ ident.hasPrefix
          /\ ident.prefix = SubSeq(call.value.s, 1, 2)
          /\ ident.id = DigitsAfterPrefix(call.value.s)
    /\ (call.op = "get_api_endpoint" /\ KnownType) =>
          /\ raised = "none"
          /\ ident.prefix = IC => ret = "containers"
          /\ ident.prefix = SS => ret = "subSamples"
          /\ ident.prefix = SA => ret = "samples"
          /\ ident.prefix = IT => ret = "templates"
    /\ (call.op = "is_movable" /\ KnownType) =>
          ret = BoolV(ident.prefix \in {IC, SS})

\* the endpoint of a sample
C13_Witness ==
    /\ call.op = "get_api_endpoint"
    /\ ident.hasPrefix
    /\ ident.prefix = SA
    /\ ident.id = 12
    /\ ret = "samples"

\* a number or a string of digits only
BareNumericId(value) ==
    value.t = "int" \/ (value.t = "str" /\ AllDigits(value.s))

\* C14: an Id built from an integer or a digits-only string has no prefix;
\* for an Id without prefix is_container, is_subsample and is_movable return
\* true in non-strict (maybe=True) mode and false in strict mode; for an Id
\* with a prefix each returns the same value in both modes.
C14_MaybeMode ==
    /\ (call.op = "Id" /\ BareNumericId(call.value)) =>
          raised = "none" /\ ~ident.hasPrefix
    /\ (call.op \in {"is_container", "is_subsample", "is_movable"} /\ ~ident.hasPrefix) =>
          ret = BoolV(call.maybe)
    /\ (call.op = "is_container" /\ ident.hasPrefix) => ret = BoolV(ident.prefix = IC)
    /\ (call.op = "is_subsample" /\ ident.hasPrefix) => ret = BoolV(ident.prefix = SS)
    /\ (call.op = "is_movable" /\ ident.hasPrefix) => ret = BoolV(ident.prefix \in {IC, SS})

\* an Id without prefix may be a subsample
C14_Witness ==
    /\ call.op = "is_subsample"
    /\ call.maybe
    /\ ~ident.hasPrefix
    /\ ret = BoolV(TRUE)

Constructors == {"ListContainer", "Workbench", "GridContainer"}

\* the cType each class of container stands for
CTypeOf(class) ==
    CASE class = "GridContainer" -> "GRID"
      [] class = "ListContainer" -> "LIST"
      [] class = "Workbench" -> "WORKBENCH"

\* C16: Container.of returns a GridContainer for cType GRID, a ListContainer
\* for LIST and a Workbench for WORKBENCH and fails with a validation error
\* when the cType entry is missing or has another value; constructing one of
\* the three classes directly from JSON of a different cType fails too.
C16_FactoryDispatch ==
    /\ call.op = "Container.of" =>
          IF call.data.hasCType /\ call.data.cType \in {"GRID", "LIST", "WORKBENCH"}
          THEN /\ raised = "none"
               /\ container.t = "Container"
               /\ CTypeOf(container.class) = call.data.cType
               /\ container.data = call.data
          ELSE raised = "ValueError" /\ container = None
    /\ call.op \in Constructors =>
          IF call.data.hasCType /\ call.data.cType = CTypeOf(call.op)
          THEN raised = "none" /\ container.class = call.op /\ container.data = call.data
          ELSE raised = "ValueError" /\ container = None

\* JSON of a cType the library does not know
C16_Witness ==
    /\ call.op = "Container.of"
    /\ call.data.hasCType
    /\ call.data.cType = "IMAGE"
    /\ raised = "ValueError"
    /\ container = None

\* the JSON of the container held is in the documented representation
Documented == {"canStoreContainers", "canStoreSubsamples"} \subseteq container.data.keys

\* C17: for a container whose JSON carries canStoreContainers and
\* canStoreSubsamples, accept_containers() returns the canStoreContainers flag
\* and accept_subsamples() returns the canStoreSubsamples flag, the flag that
\* create_list_container and create_grid_container send.
C17_AcceptFlags ==
    /\ (call.op = "accept_containers" /\ Documented) =>
          raised = "none" /\ ret = BoolV(container.data.canStoreContainers)
    /\ (call.op = "accept_subsamples" /\ Documented) =>
          raised = "none" /\ ret = BoolV(container.data.canStoreSubsamples)
    /\ call.op \in {"create_list_container", "create_grid_container"} =>
          /\ Len(requests) = 1
          /\ "canStoreSubsamples" \in DOMAIN requests[1].params
          /\ "canStoreContainers" \in DOMAIN requests[1].params

\* the page size of the Pagination the stream_* call was given
GivenPageSize == pagination[opened.cursor].data.pageSize

\* the endpoint the stream_* call reads
GivenEndpoint == IF opened.op = "stream_samples" THEN "samples" ELSE "containers"

\* the items of pages, one page after the other
RECURSIVE Concatenated(_)
Concatenated(pages) ==
    IF Len(pages) = 0 THEN <<>> ELSE Head(pages) \o Concatenated(Tail(pages))

\* a page fetch of the stream has failed
FetchFailed == Len(requests) = Len(served) + 1

\* the stream has ended on a short page
Exhausted == call.op = "next" /\ raised = "StopIteration" /\ ~FetchFailed

\* C18: streaming a listing with page size P requests the pages 0, 1, ..., k
\* in increasing order, each once, k being the first page with fewer than P
\* items, makes no request after page k, and yields exactly the items of
\* these pages in the order the server returned them.
C18_StreamPages ==
    generator # None =>
        /\ \A i \in 1..Len(requests) :
              /\ requests[i].method = "GET"
              /\ requests[i].path = <<"/", GivenEndpoint>>
              /\ requests[i].params.pageNumber = i - 1
              /\ requests[i].params.pageSize = GivenPageSize
        /\ Len(requests) = Len(served) \/ FetchFailed
        /\ \A i \in 1..Len(served) :
              (i < Len(served) \/ FetchFailed) => Len(served[i]) = GivenPageSize
        /\ Len(consumed) <= Len(Concatenated(served))
        /\ consumed = SubSeq(Concatenated(served), 1, Len(consumed))
        /\ (call.op = "next" /\ raised = "none") => ret = consumed[Len(consumed)]
        /\ Exhausted =>
              /\ Len(served) > 0
              /\ Len(served[Len(served)]) < GivenPageSize
              /\ consumed = Concatenated(served)

\* pages of 2, 2 and 1 items for page size 2: 5 items and 3 requests
C18_Witness ==
    /\ Exhausted
    /\ opened.op = "stream_samples"
    /\ opened.cursor = "caller"
    /\ GivenPageSize = 2
    /\ Len(served) = 3
    /\ Len(served[1]) = 2 /\ Len(served[2]) = 2 /\ Len(served[3]) = 1
    /\ Len(consumed) = 5
    /\ Len(requests) = 3

\* a query without the entries a SearchFilter adds
NoFilterEntries(data) == ~data.hasDeletedItems /\ ~data.hasOwnedBy

\* C19: a list_* or stream_* call made with a search filter leaves the
\* Pagination object it was given, and the default Pagination, unchanged:
\* after any sequence of calls, a later list_* or stream_* call made without
\* a filter sends none of the filter parameters (deletedItems, ownedBy) of an
\* earlier call.
C19_NoFilterLeak ==
    /\ (call.op \in ListMethods /\ call.sample_filter = None) =>
          NoFilterEntries(requests[Len(requests)].params)
    /\ (call.op = "next" /\ call.fetched > 0 /\ opened.sample_filter = None) =>
          NoFilterEntries(requests[Len(requests)].params)

\* C20: if a page fetch fails while streaming, the error reaches the consumer
\* at the pull that needed that page, the failed page is requested once only,
\* no item of it is yielded, and the items of the earlier pages have all
\* been yielded in order.
C20_FetchErrorPropagates ==
    /\ (call.op = "next" /\ raised = "ApiError") =>
          /\ call.fetched = 1
          /\ FetchFailed
          /\ ret = None
    /\ (generator # None /\ FetchFailed) =>
          /\ call.op = "next"
          /\ raised \in {"ApiError", "StopIteration"}
          /\ requests[Len(requests)].params.pageNumber = Len(served)
          /\ \A i \in 1..(Len(requests) - 1) :
                requests[i].params.pageNumber # Len(served)
          /\ consumed = Concatenated(served)

\* the third page fails after two full pages have been consumed
C20_Witness ==
    /\ call.op = "next"
    /\ raised = "ApiError"
    /\ Len(served) = 2
    /\ Len(consumed) = 4
    /\ Len(requests) = 3

(***************************************************************************)
(* Export jobs.                                                            *)
(***************************************************************************)
\* download_export has returned or raised
ExportDone == exporting # None /\ exporting.pc = "done"

\* the requests sent to this endpoint
SentTo(endpoint) == SelectSeq(requests, LAMBDA r : r.path.endpoint = endpoint)

\* the last status download_export has read, "none" before the first
LastSeen ==
    IF exporting = None \/ exporting.seen = <<>> THEN "none"
    ELSE exporting.seen[Len(exporting.seen)]

\* where the archive is to be written
ExpectedFile ==
    IF exporting.file_path.isdir
    THEN Append(exporting.file_path.path, "archive.zip")
    ELSE exporting.file_path.path

\* C21: the first status outside STARTING, STARTED, RUNNING ends
\* download_export and decides how: on COMPLETED the archive is fetched once
\* and, the fetch answered, the file path is returned; on FAILED or ABANDONED
\* an ApiError with the message of the server is raised; on any other status
\* an ApiError naming the unknown status is raised.  The archive is fetched
\* at most once and only after COMPLETED was read, and no status is read
\* after the one that ended the call.
C21_JobStatusDecides ==
    exporting # None =>
        /\ \A i \in 1..(Len(exporting.seen) - 1) : exporting.seen[i] \in InProgress
        /\ LastSeen \in Statuses \ InProgress => ExportDone
        /\ Len(SentTo("link")) <= 1
        /\ SentTo("link") # <<>> =>
              /\ LastSeen = "COMPLETED"
              /\ requests[Len(requests)].path = LinkPath(ArchiveUrl, ExpectedFile)
        /\ LastSeen = "COMPLETED" =>
              /\ Len(SentTo("link")) = 1
              /\ \/ raised = "none" /\ ret = StrV(ExpectedFile)
                 \/ raised = "ApiError" /\ ret = None /\ exporting.message = <<>>
        /\ LastSeen = "FAILED" =>
              /\ raised = "ApiError"
              /\ exporting.message = <<"Export job failed: ", job.result.message>>
        /\ LastSeen = "ABANDONED" =>
              /\ raised = "ApiError"
              /\ exporting.message = <<"Export job was abandoned: ", job.result.message>>
        /\ LastSeen \in Statuses \ (InProgress \cup {"COMPLETED", "FAILED", "ABANDONED"}) =>
              /\ raised = "ApiError"
              /\ exporting.message = <<"Unknown job status: ", LastSeen>>
        /\ Len(SentTo("jobs")) \in {Len(exporting.seen), Len(exporting.seen) + 1}
        /\ \A i \in 1..Len(SentTo("jobs")) : SentTo("jobs")[i].path.id = exporting.job_id

\* a job read as STARTING, then RUNNING, then COMPLETED, its archive written
C21_Witness ==
    /\ ExportDone
    /\ exporting.seen = <<"STARTING", "RUNNING", "COMPLETED">>
    /\ raised = "none"
    /\ ret = StrV(<<"out", "archive.zip">>)

(***************************************************************************)
(* Import of a directory tree.                                             *)
(***************************************************************************)
\* the request creates a folder for, or uploads a file from, this directory
Touches(r, d) ==
    \/ r.path.endpoint = "folders" /\ r.path.name = d
    \/ r.path.endpoint = "files" /\ r.path.parent = d

\* C22: with ignore_hidden_folders=True import_tree creates no folder for,
\* and uploads no file from, a subdirectory whose name starts with '.',
\* however many hidden and visible subdirectories the directory lists and in
\* whatever order.
C22_HiddenFoldersIgnored ==
    call.op = "import_tree" /\ call.ignore_hidden_folders =>
        \A i \in 1..Len(requests), k \in 1..Len(call.subdirList) :
            call.subdirList[k][1] = "." => ~Touches(requests[i], call.subdirList[k])

(***************************************************************************)
(* Placements that do not fit their grid.                                  *)
(***************************************************************************)
\* the cells of the grid the placement declares
GridSize(p) == p.total_columns * p.total_rows

\* the placement has more items than cells from its start cell on
Overflows(p) == ExpectedStart(p) + Len(p.items_to_move) > GridSize(p)

InGrid(cell, p) ==
    /\ 1 <= cell.coordX /\ cell.coordX <= p.total_columns
    /\ 1 <= cell.coordY /\ cell.coordY <= p.total_rows

\* C23: for a ByRow or ByColumn placement that does not fit
\* (start_index + N > total_columns * total_rows) the bulk move is built
\* without error and has N records; an item of linear index
\* >= total_columns * total_rows gets a cell outside the grid (y > total_rows
\* for ByRow, x > total_columns for ByColumn), never one wrapped into the
\* grid, and an item of smaller linear index gets a cell inside the grid.
C23_OverflowLeavesGrid ==
    (/\ call.op = "add_items_to_grid_container"
     /\ placement.t = "AutoFit"
     /\ Overflows(placement)) =>
        /\ BareOrContainerId(call.target) => Sent /\ raised \in {"none", "ApiError"}
        /\ Sent =>
              /\ Len(requests[1].params.records) = Len(placement.items_to_move)
              /\ \A i \in 1..Len(placement.items_to_move) :
                    IF ExpectedStart(placement) + (i - 1) >= GridSize(placement)
                    THEN IF placement.filling_strategy = BY_ROW
                         THEN requests[1].params.records[i].parentLocation.coordY
                                  > placement.total_rows
                         ELSE requests[1].params.records[i].parentLocation.coordX
                                  > placement.total_columns
                    ELSE InGrid(requests[1].params.records[i].parentLocation, placement)

\* two items placed by row from the last cell of a 2 x 2 grid: the second
\* goes to row 3
C23_Witness ==
    /\ Sent
    /\ placement.t = "AutoFit"
    /\ placement.filling_strategy = BY_ROW
    /\ placement.total_columns = 2
    /\ placement.total_rows = 2
    /\ placement.column_index = 2
    /\ placement.row_index = 2
    /\ Len(placement.items_to_move) = 2
    /\ requests[1].params.records[1].parentLocation = [coordX |-> 2, coordY |-> 2]
    /\ requests[1].params.records[2].parentLocation = [coordX |-> 1, coordY |-> 3]

(***************************************************************************)
(* The pace of a stream.                                                   *)
(***************************************************************************)
\* C24: the stream is pull-driven: a request is made only in a pull of the
\* consumer and one at most per pull, so none before the first pull and none
\* once the consumer stops pulling; and a page is requested only when every
\* item of the pages fetched before has been yielded.
C24_PullDriven ==
    [][requests' # requests =>
          /\ call'.op = "next"
          /\ call'.fetched = 1
          /\ Len(requests') = Len(requests) + 1
          /\ consumed = Concatenated(served)]_vars

\* the second page is requested by the pull that follows the two items of the
\* first and yields the third item
C24_Witness ==
    /\ call.op = "next"
    /\ call.fetched = 1
    /\ raised = "none"
    /\ Len(requests) = 2
    /\ Len(served) = 2
    /\ Len(served[1]) = 2
    /\ Len(consumed) = 3

(***************************************************************************)
(* The end of download_export.                                             *)
(***************************************************************************)
\* the server reports a status that is not an in-progress one
JobEnded == job # None /\ job.status \notin InProgress

\* the in-progress statuses download_export has read
SeenInProgress == SelectSeq(exporting.seen, LAMBDA status : status \in InProgress)

\* the last status request was refused by the resource client
PollRefused ==
    /\ raised = "ApiError"
    /\ exporting.message = <<>>
    /\ Len(SentTo("jobs")) = Len(exporting.seen) + 1

\* the loop has slept once after each in-progress status it has read, the
\* sleep after the last one being under way at sleep
SleptAfterEach ==
    exporting.slept = Len(SeenInProgress) - (IF exporting.pc = "sleep" THEN 1 ELSE 0)

\* the loop has read as many in-progress statuses as the server is let report
ReadToBound == exporting # None /\ Len(exporting.seen) = MaxPolls

\* C25: download_export ends exactly when the job reports a status outside
\* STARTING, STARTED, RUNNING: once the server reports such a status the call
\* returns or raises; a started call that has ended has read such a status
\* (or had a status request refused by the resource client); and while the
\* statuses read are in-progress ones the loop sleeps once after each and
\* polls again, with no limit of its own.
C25_EndsOnTerminalStatus ==
    /\ [](job # None =>
            /\ ExportDone => LastSeen \in Statuses \ InProgress \/ PollRefused
            /\ SleptAfterEach
            /\ exporting.pc = "sleep" => LastSeen \in InProgress
            /\ Len(SentTo("jobs")) >= Len(exporting.seen))
    /\ (JobEnded ~> ExportDone)
    /\ (job # None ~> (ExportDone \/ ReadToBound))

\* a call that has slept twice and then read that the job was abandoned
C25_Witness ==
    /\ ExportDone
    /\ exporting.slept = 2
    /\ LastSeen = "ABANDONED"
    /\ raised = "ApiError"

(***************************************************************************)
(* Moves validate before they send.                                        *)
(***************************************************************************)
MoveOps == {"add_items_to_grid_container", "add_items_to_list_container"}

\* a target whose type is known and is not container
KnownNotContainer(target) ==
    \/ target.t = "str" /\ Len(target.s) > 2 /\ SubSeq(target.s, 1, 2) \in {SS, SA, IT}
    \/ target.t = "dict" /\ target.hasGlobalId
          /\ SubSeq(target.globalId, 1, 2) \in {SS, SA, IT}

\* an item the movability check lets through: the global id of a container or
\* of a subsample
PassesMovable(item) ==
    \/ item.t = "str" /\ Len(item.s) > 2 /\ SubSeq(item.s, 1, 2) \in {IC, SS}
    \/ item.t = "dict" /\ item.hasGlobalId /\ SubSeq(item.globalId, 1, 2) \in {IC, SS}

\* C26: the move operations validate before they send: when the target is
\* known not to be a container, or an item at any position fails the
\* movability check (in add_items_to_list_container, or in the constructor of
\* the placement add_items_to_grid_container is given), an error is raised
\* and no request has been sent; a call that raises a validation error has
\* sent nothing, and a move is one request carrying every item.
C26_ValidateBeforeSend ==
    /\ (call.op \in MoveOps /\ KnownNotContainer(call.target)) =>
          raised = "ValueError" /\ requests = <<>>
    /\ (/\ call.op = "add_items_to_list_container"
         /\ \E i \in 1..Len(call.item_ids) : ~PassesMovable(call.item_ids[i])) =>
          raised = "ValueError" /\ requests = <<>>
    /\ (/\ call.op \in ConstructorOps
         /\ \E i \in 1..Len(call.items_to_move) : ~PassesMovable(call.items_to_move[i])) =>
          raised = "ValueError" /\ placement = None /\ requests = <<>>
    /\ (call.op \in MoveOps /\ raised \notin {"none", "ApiError"}) => requests = <<>>
    /\ Len(requests) <= 1
    /\ (call.op = "add_items_to_list_container" /\ requests # <<>>) =>
          Len(requests[1].params.records) = Len(call.item_ids)
    /\ (call.op = "add_items_to_grid_container" /\ requests # <<>>) =>
          Len(requests[1].params.records) = Len(placement.items_to_move)

\* a sample comes last in the items given to add_items_to_list_container,
\* after a subsample and a container
C26_Witness ==
    /\ call.op = "add_items_to_list_container"
    /\ call.target = StrV(<<"I", "C", "7">>)
    /\ call.item_ids =
          <<StrV(<<"S", "S", "1">>), StrV(<<"I", "C", "2">>), StrV(<<"S", "A", "3">>)>>
    /\ raised = "ValueError"
    /\ requests = <<>>

(***************************************************************************)
(* The order of the free cells.                                            *)
(***************************************************************************)
\* (x1, y1) comes before (x2, y2) column by column, row by row in a column
ColumnMajorBefore(a, b) == a[1] < b[1] \/ (a[1] = b[1] /\ a[2] < b[2])

\* C27: free_locations() lists the free cells sorted by column first and by
\* row within a column: one cell stands before another in the list exactly
\* when its column is smaller, or the columns are equal and its row is
\* smaller.
C27_ColumnMajorOrder ==
    call.op = "free_locations" =>
        \A i, j \in 1..Len(ret.items) :
            i < j <=> ColumnMajorBefore(ret.items[i], ret.items[j])

\* the four free cells of an empty 2 x 2 grid
C27_Witness ==
    /\ call.op = "free_locations"
    /\ container.data.gridLayout.rowsNumber = 2
    /\ container.data.gridLayout.columnsNumber = 2
    /\ container.data.locations = <<>>
    /\ ret.items = << <<1, 1>>, <<1, 2>>, <<2, 1>>, <<2, 2>> >>

(***************************************************************************)
(* The cells of a constructed placement.                                   *)
(***************************************************************************)
\* C28: for every constructed ByRow or ByColumn placement the validation of
\* _calculate_start_index does not fire, the cells given to its N items are
\* pairwise distinct, and when start_index + N <= total_columns * total_rows
\* every cell has 1 <= x <= total_columns and 1 <= y <= total_rows.
C28_DistinctCells ==
    /\ placement.t = "AutoFit" =>
          _calculate_start_index(placement.column_index, placement.row_index,
                                 placement.total_columns, placement.total_rows,
                                 placement.filling_strategy).err = "none"
    /\ (/\ call.op = "add_items_to_grid_container"
         /\ placement.t = "AutoFit"
         /\ BareOrContainerId(call.target)) => Sent
    /\ (Sent /\ placement.t = "AutoFit") =>
          /\ \A i, j \in 1..Len(placement.items_to_move) :
                requests[1].params.records[i].parentLocation
                    = requests[1].params.records[j].parentLocation => i = j
          /\ ~Overflows(placement) =>
                \A i \in 1..Len(placement.items_to_move) :
                    InGrid(requests[1].params.records[i].parentLocation, placement)

\* three items placed by column from the second cell of a 2 x 2 grid
C28_Witness ==
    /\ Sent
    /\ placement.t = "AutoFit"
    /\ placement.filling_strategy = BY_COLUMN
    /\ placement.total_columns = 2
    /\ placement.total_rows = 2
    /\ placement.column_index = 1
    /\ placement.row_index = 2
    /\ Len(placement.items_to_move) = 3
    /\ requests[1].params.records[1].parentLocation = [coordX |-> 1, coordY |-> 2]
    /\ requests[1].params.records[2].parentLocation = [coordX |-> 2, coordY |-> 1]
    /\ requests[1].params.records[3].parentLocation = [coordX |-> 2, coordY |-> 2]

(***************************************************************************)
(* The variant of a container.                                             *)
(***************************************************************************)
\* C29: every container object built from a snapshot answers is_grid(),
\* is_list() and is_workbench() without error, and the one that is true is
\* the one of its cType: is_grid() for GRID, is_list() for LIST,
\* is_workbench() for WORKBENCH.
C29_VariantQueries ==
    /\ call.op = "is_grid" =>
          raised = "none" /\ ret = BoolV(container.data.cType = "GRID")
    /\ call.op = "is_list" =>
          raised = "none" /\ ret = BoolV(container.data.cType = "LIST")
    /\ call.op = "is_workbench" =>
          raised = "none" /\ ret = BoolV(container.data.cType = "WORKBENCH")

(***************************************************************************)
(* Reading a subsample by id.                                              *)
(***************************************************************************)
\* an identifier whose type is known and is not subsample
KnownNotSubsample(value) ==
    \/ value.t = "str" /\ Len(value.s) > 2 /\ SubSeq(value.s, 1, 2) \in {IC, SA, IT}
    \/ value.t = "dict" /\ value.hasGlobalId
          /\ SubSeq(value.globalId, 1, 2) \in {IC, SA, IT}

\* C30: get_subsample_by_id given an identifier whose type is known and is
\* not subsample (the global id of a sample, SA..., or of a container, IC...)
\* raises a validation error and sends no request; a GET on the subSamples
\* resource is made only for identifiers that are subsamples or of unknown
\* type.
C30_SubsampleIdChecked ==
    call.op = "get_subsample_by_id" =>
        /\ KnownNotSubsample(call.id) => raised = "ValueError" /\ requests = <<>>
        /\ requests # <<>> =>
              /\ ~KnownNotSubsample(call.id)
              /\ requests[1].method = "GET"
              /\ requests[1].path.endpoint = "subSamples"

=============================================================================
